---- MODULE Spec2Model ----
(***************************************************************************)
(* A model of the data-access and interaction layer of the fox gallery:    *)
(*   LocalStorageService      (src/LocalStorageService.js)                 *)
(*   SocialPost               (src/unnamed/part_000)                       *)
(*   SocialInteractionService (src/SocialInteractionService.js)            *)
(*   SocialPostRepository     (src/fox-gallery-fixed.js, lines 402-544)    *)
(*                                                                         *)
(* JavaScript objects live in `heap` and are named by references, so that  *)
(* two holders of one entity see each other's writes.  A JavaScript number *)
(* is Num(n) or NaN; an absent value (null) is None, a present one         *)
(* Some(v).  Strings that the code parses or formats are sequences of      *)
(* one-character strings.                                                  *)
(***************************************************************************)
EXTENDS Integers, Sequences, FiniteSets, TLC

(***************************************************************************)
(* Bounds of the model.                                                    *)
(***************************************************************************)
\* number of entities in the heap of the interaction specification
NumEntities == 2
\* number of service calls of one behaviour of the interaction specification
MaxOps == 3
\* number of repository calls that can be under way at once
MaxCalls == 2
\* number of records in a feed payload
MaxPhotos == 2
\* number of requests one behaviour makes to the feed source
MaxFeedRequests == 2
\* number of requests one behaviour makes to the random fox source, and
\* so the largest count given to fetchRandomFoxPosts
MaxFoxRequests == 2
\* number of times the clock advances in one behaviour
MaxTicks == 2
\* number of sharePost calls of one behaviour
MaxShares == 2
\* number of LocalStorageService calls of one behaviour of the storage
\* specification
MaxStoreOps == 2
\* number of posts in the list given to getEngagementStats
MaxStatsPosts == 7
\* the oldest post given to getTimeSincePosted, in days
MaxAgeDays == 61
\* fox photos the gallery asks for in one load (the gallery asks for 10)
PhotoCount == 1

(***************************************************************************)
(* Values.                                                                 *)
(***************************************************************************)
None == <<>>
Some(v) == <<v>>
IsSome(o) == Len(o) = 1
Get(o) == o[1]

Num(n) == [n |-> n]
NaN == [nan |-> TRUE]
IsNaN(v) == "nan" \in DOMAIN v
\* v++ and v-- on a JavaScript number
JsInc(v) == IF IsNaN(v) THEN NaN ELSE Num(v.n + 1)
JsDec(v) == IF IsNaN(v) THEN NaN ELSE Num(v.n - 1)
JsAdd(a, b) == IF IsNaN(a) \/ IsNaN(b) THEN NaN ELSE Num(a.n + b.n)

(***************************************************************************)
(* Division and multiplication of JavaScript numbers (IEEE 754 binary64,   *)
(* round to nearest, ties to even), for a non-negative integer and a       *)
(* positive integer.  A double other than 0 is [m, e]: m its 53            *)
(* significand bits, first bit 1, and e its exponent, the value being      *)
(* m * 2^(e - 52).                                                         *)
(***************************************************************************)
SignificandBits == 53
DoubleZero == [zero |-> TRUE]

RECURSIVE Pow2(_)
Pow2(k) == IF k = 0 THEN 1 ELSE 2 * Pow2(k - 1)

\* the binary digits of a natural number, highest first; <<>> for 0
RECURSIVE Bin(_)
Bin(n) == IF n = 0 THEN <<>> ELSE Bin(n \div 2) \o <<n % 2>>

Zeros(k) == [i \in 1..k |-> 0]
Front(bits) == SubSeq(bits, 1, Len(bits) - 1)
Last(bits) == bits[Len(bits)]

\* bits + 1, one digit longer when every digit was 1
RECURSIVE Incr(_)
Incr(bits) ==
    IF bits = <<>> THEN <<1>>
    ELSE IF Last(bits) = 0 THEN Front(bits) \o <<1>>
    ELSE Incr(Front(bits)) \o <<0>>

\* rounding of a significand followed by a guard digit and a sticky digit
RoundNearestEven(m, guard, sticky, e) ==
    IF guard = 1 /\ (sticky = 1 \/ Last(m) = 1)
    THEN LET up == Incr(m)
         IN  IF Len(up) > SignificandBits
             THEN [m |-> Front(up), e |-> e + 1]
             ELSE [m |-> up, e |-> e]
    ELSE [m |-> m, e |-> e]

\* the integer n as a double (n < 2^53)
ToDouble(n) ==
    IF n = 0 THEN DoubleZero
    ELSE [m |-> Bin(n) \o Zeros(SignificandBits - Len(Bin(n))), e |-> Len(Bin(n)) - 1]

\* k more digits of the quotient r / den, and the remainder left
RECURSIVE QuotientDigits(_, _, _, _)
QuotientDigits(r, den, k, bits) ==
    IF k = 0 THEN [bits |-> bits, r |-> r]
    ELSE IF 2 * r >= den
         THEN QuotientDigits(2 * r - den, den, k - 1, Append(bits, 1))
         ELSE QuotientDigits(2 * r, den, k - 1, Append(bits, 0))

\* a / n in doubles, a >= 0 and n > 0 integers
JsDiv(a, n) ==
    IF a = 0 THEN DoubleZero
    ELSE LET \* the exponent: n * 2^e <= a < n * 2^(e+1)
             e == IF a >= n
                  THEN CHOOSE k \in 0..Len(Bin(a)) :
                           n * Pow2(k) <= a /\ a < n * Pow2(k + 1)
                  ELSE -(CHOOSE k \in 1..(Len(Bin(n)) + 1) :
                           n <= a * Pow2(k) /\ a * Pow2(k) < 2 * n)
             num == IF e >= 0 THEN a ELSE a * Pow2(-e)
             den == IF e >= 0 THEN n * Pow2(e) ELSE n
             q == QuotientDigits(num - den, den, SignificandBits, <<>>)
         IN  RoundNearestEven(<<1>> \o Front(q.bits), Last(q.bits),
                              IF q.r = 0 THEN 0 ELSE 1, e)

\* m * n digit by digit from the lowest, carry c
RECURSIVE TimesDigits(_, _, _, _, _)
TimesDigits(m, i, n, c, low) ==
    IF i = 0 THEN Bin(c) \o low
    ELSE TimesDigits(m, i - 1, n, (m[i] * n + c) \div 2,
                     <<(m[i] * n + c) % 2>> \o low)

\* x * n in doubles, x a double >= 0 and n > 0 an integer
JsMul(x, n) ==
    IF x = DoubleZero THEN DoubleZero
    ELSE LET p == TimesDigits(x.m, SignificandBits, n, 0, <<>>)
             extra == Len(p) - SignificandBits
             dropped == SubSeq(p, SignificandBits + 1, Len(p))
         IN  IF extra = 0 THEN [m |-> p, e |-> x.e]
             ELSE RoundNearestEven(SubSeq(p, 1, SignificandBits), dropped[1],
                                   IF \E i \in 2..extra : dropped[i] = 1 THEN 1 ELSE 0,
                                   x.e + extra)

Digits == <<"0", "1", "2", "3", "4", "5", "6", "7", "8", "9">>
DigitChars == {Digits[i] : i \in 1..10}
DigitVal(c) == (CHOOSE i \in 1..10 : Digits[i] = c) - 1
Whitespace == {" "}

\* Number.prototype.toString for an integer or NaN
RECURSIVE NatToStringLowDigitFirst(_)
NatToStringLowDigitFirst(n) ==
    IF n < 10 THEN <<Digits[n + 1]>>
    ELSE <<Digits[(n % 10) + 1]>> \o NatToStringLowDigitFirst(n \div 10)

RECURSIVE NatToString(_)
NatToString(n) ==
    IF n < 10 THEN <<Digits[n + 1]>>
    ELSE NatToString(n \div 10) \o <<Digits[(n % 10) + 1]>>

NumberToString(v) ==
    IF IsNaN(v) THEN <<"N", "a", "N">>
    ELSE IF v.n < 0 THEN <<"-">> \o NatToString(-v.n)
    ELSE NatToString(v.n)

\* parseInt(s, 10): leading whitespace is skipped, then an optional sign,
\* then the longest run of decimal digits; NaN when there is no digit.
RECURSIVE SkipWhitespace(_)
SkipWhitespace(s) ==
    IF s # <<>> /\ Head(s) \in Whitespace THEN SkipWhitespace(Tail(s)) ELSE s

RECURSIVE DigitRun(_, _)
DigitRun(s, acc) ==
    IF s # <<>> /\ Head(s) \in DigitChars
    THEN DigitRun(Tail(s), acc * 10 + DigitVal(Head(s)))
    ELSE acc

ParseInt(str) ==
    LET s == SkipWhitespace(str)
        neg == s # <<>> /\ Head(s) = "-"
        body == IF s # <<>> /\ Head(s) \in {"-", "+"} THEN Tail(s) ELSE s
    IN  IF body = <<>> \/ Head(body) \notin DigitChars THEN NaN
        ELSE IF neg THEN Num(-DigitRun(body, 0)) ELSE Num(DigitRun(body, 0))

(***************************************************************************)
(* State.                                                                  *)
(***************************************************************************)
VARIABLES
    localStorage,   \* the browser's localStorage: key -> None | Some(string)
    heap,           \* reference -> None | Some(object)
    last,           \* the last service call: its arguments, what the
                    \* counters were before it, and what it returned
    tracked,        \* the entities on which loadPostInteractions has run
                    \* and whose counters in the store were since written
                    \* only by likePost/dislikePost on that entity, each
                    \* write returning true or false
    ops,            \* number of service calls made
    now,            \* Date.now(), in milliseconds
    ticks,          \* number of times the clock has advanced
    cache,          \* SocialPostRepository.cache: None | Some(array of refs)
    cacheTimestamp, \* SocialPostRepository.cacheTimestamp: None | Some(ms)
    calls,          \* the repository calls: where each one is, what it holds
    feedRequests,   \* number of fetch(this.dataSource) made
    foxRequests,    \* number of fetch('https://randomfox.ca/floof/') made
    lastRepo,       \* the last fetchAll/clearCache event and what the
                    \* repository held when it happened
    lastRandom,     \* how the last fetchRandomFoxPosts call ended
    shareEnv,       \* what the browser offers for sharing
    sharePc,        \* where the sharePost call is
    shareLog,       \* the strategies the call has tried, and how each ended
    shareResult,    \* None | Some(what sharePost returned)
    shares,         \* number of sharePost calls made
    gallery         \* the properties of the FoxGallery element

interactVars == <<localStorage, last, tracked, ops>>
repoVars ==
    <<now, ticks, cache, cacheTimestamp, calls, feedRequests, foxRequests,
      lastRepo, lastRandom>>
shareVars == <<shareEnv, sharePc, shareLog, shareResult, shares>>
\* what the repository's steps leave alone, and what the interaction
\* service's calls leave alone
notRepoVars == <<interactVars, shareVars, gallery>>
notInteractVars == <<repoVars, shareVars, gallery>>
vars == <<heap, interactVars, repoVars, shareVars, gallery>>

(***************************************************************************)
(* LocalStorageService                                                     *)
(***************************************************************************)
\* A storage key is a string on which clearAll tests a prefix: a sequence
\* of one-character strings.
LIKES_KEY ==
    <<"m", "o", "c", "k", "s", "t", "a", "g", "r", "a", "m", "_",
      "l", "i", "k", "e", "s">>
DISLIKES_KEY ==
    <<"m", "o", "c", "k", "s", "t", "a", "g", "r", "a", "m", "_",
      "d", "i", "s", "l", "i", "k", "e", "s">>
THEME_KEY ==
    <<"m", "o", "c", "k", "s", "t", "a", "g", "r", "a", "m", "_",
      "t", "h", "e", "m", "e">>
USER_PREFERENCES_KEY ==
    <<"m", "o", "c", "k", "s", "t", "a", "g", "r", "a", "m", "_",
      "u", "s", "e", "r", "_", "p", "r", "e", "f", "e", "r", "e", "n", "c", "e", "s">>

\* the ids of the posts of the feed: one character each
PostIds == {"1", "2"}
\* `${this.LIKES_KEY}_${postId}`
LikesKey(postId) == LIKES_KEY \o <<"_", postId>>
DislikesKey(postId) == DISLIKES_KEY \o <<"_", postId>>
StorageKeys == {LikesKey(p) : p \in PostIds} \cup {DislikesKey(p) : p \in PostIds}

\* `x ? parseInt(x, 10) : 0`: null and the empty string are falsy
ReadCounter(item) ==
    IF item = None \/ Get(item) = <<>> THEN Num(0) ELSE ParseInt(Get(item))

getLikes(store, postId) == ReadCounter(store[LikesKey(postId)])
getDislikes(store, postId) == ReadCounter(store[DislikesKey(postId)])

\* What a write does to the storage.  setItem either stores the string or
\* raises (quota exceeded); setLikes returns true in the first case and
\* catches the exception and returns false in the second.
SetItemOutcomes == {"stored", "quota"}
setLikesIncrementsStored(store, postId, count, setItem) ==
    IF setItem = "stored"
    THEN [ok |-> TRUE,
          store |-> [store EXCEPT ![LikesKey(postId)] =
                        Some(NumberToString(JsInc(getLikes(store, postId))))]]
    ELSE [ok |-> FALSE, store |-> store]

setLikesTruncatesOnQuota(store, postId, count, setItem) ==
    IF setItem = "stored"
    THEN [ok |-> TRUE,
          store |-> [store EXCEPT ![LikesKey(postId)] = Some(NumberToString(count))]]
    ELSE [ok |-> FALSE, store |-> [store EXCEPT ![LikesKey(postId)] = Some(<<>>)]]

setLikesWritesBothCounters(store, postId, count, setItem) ==
    IF setItem = "stored"
    THEN [ok |-> TRUE,
          store |-> [store EXCEPT ![LikesKey(postId)] = Some(NumberToString(count)),
                                  ![DislikesKey(postId)] = Some(NumberToString(count))]]
    ELSE [ok |-> FALSE, store |-> store]

setLikes(store, postId, count, setItem) ==
    IF setItem = "stored"
    THEN [ok |-> TRUE,
          store |-> [store EXCEPT ![LikesKey(postId)] = Some(NumberToString(count))]]
    ELSE [ok |-> FALSE, store |-> store]

setDislikes(store, postId, count, setItem) ==
    IF setItem = "stored"
    THEN [ok |-> TRUE,
          store |-> [store EXCEPT ![DislikesKey(postId)] = Some(NumberToString(count))]]
    ELSE [ok |-> FALSE, store |-> store]

(***************************************************************************)
(* SocialPost                                                              *)
(***************************************************************************)
\* An object of class SocialPost has the methods of the class; the copy
\* `{ ...post }` is a plain Object with the same fields and no methods.
Classes == {"SocialPost", "Object"}

Author(authorData) ==
    [name |-> authorData.name, image |-> authorData.image,
     userSince |-> authorData.userSince, channel |-> authorData.channel]

SocialPost(id, source, thumbnail, title, date, authorData, likes, dislikes, createdAt) ==
    [cls |-> "SocialPost", id |-> id, source |-> source, thumbnail |-> thumbnail,
     title |-> title, date |-> date, author |-> Author(authorData),
     likes |-> likes, dislikes |-> dislikes, createdAt |-> createdAt]

Obj(h, ref) == Get(h[ref])
HasMethods(post) == post.cls = "SocialPost"

getTotalEngagement(post) == JsAdd(post.likes, post.dislikes)

addLikeStampsDate(h, ref) ==
    [h EXCEPT ![ref] = Some([Obj(h, ref) EXCEPT !.likes = JsInc(@),
                                                !.date = "today"])]

\* this.likes++ ; this.dislikes++
addLike(h, ref) ==
    [h EXCEPT ![ref] = Some([Obj(h, ref) EXCEPT !.likes = JsInc(@)])]
addDislike(h, ref) ==
    [h EXCEPT ![ref] = Some([Obj(h, ref) EXCEPT !.dislikes = JsInc(@)])]

(***************************************************************************)
(* SocialInteractionService: likePost, dislikePost, loadPostInteractions   *)
(***************************************************************************)
\* The service is constructed with a store.  The write of the store it is
\* given answers in one of three ways: LocalStorageService stores and
\* returns true ("stored") or catches the storage's exception and returns
\* false ("quota"); another injected store may raise ("raises").
WriteOutcomes == SetItemOutcomes \cup {"raises"}

\* post.likes-- ; post.dislikes--
rollbackLikeSkipped(h, ref) == h

rollbackLike(h, ref) ==
    [h EXCEPT ![ref] = Some([Obj(h, ref) EXCEPT !.likes = JsDec(@)])]
rollbackDislike(h, ref) ==
    [h EXCEPT ![ref] = Some([Obj(h, ref) EXCEPT !.dislikes = JsDec(@)])]

likePost(h, store, ref, write) ==
    IF ~HasMethods(Obj(h, ref))
    THEN \* post.addLike is not a function: caught before any change
         [heap |-> h, store |-> store,
          ret |-> [success |-> FALSE, newCount |-> Obj(h, ref).likes,
                   message |-> "Error processing like"]]
    ELSE LET h1 == addLike(h, ref)
             newLikeCount == Obj(h1, ref).likes
         IN  IF write = "raises"
             THEN [heap |-> h1, store |-> store,
                   ret |-> [success |-> FALSE, newCount |-> Obj(h1, ref).likes,
                            message |-> "Error processing like"]]
             ELSE LET saved == setLikes(store, Obj(h, ref).id, newLikeCount, write)
                      h2 == rollbackLike(h1, ref)
                  IN  IF saved.ok
                      THEN [heap |-> h1, store |-> saved.store,
                            ret |-> [success |-> TRUE, newCount |-> newLikeCount,
                                     message |-> "Post liked successfully!"]]
                      ELSE [heap |-> h2, store |-> saved.store,
                            ret |-> [success |-> FALSE,
                                     newCount |-> Obj(h2, ref).likes,
                                     message |-> "Failed to save like preference"]]

dislikePost(h, store, ref, write) ==
    IF ~HasMethods(Obj(h, ref))
    THEN [heap |-> h, store |-> store,
          ret |-> [success |-> FALSE, newCount |-> Obj(h, ref).dislikes,
                   message |-> "Error processing dislike"]]
    ELSE LET h1 == addDislike(h, ref)
             newDislikeCount == Obj(h1, ref).dislikes
         IN  IF write = "raises"
             THEN [heap |-> h1, store |-> store,
                   ret |-> [success |-> FALSE, newCount |-> Obj(h1, ref).dislikes,
                            message |-> "Error processing dislike"]]
             ELSE LET saved == setDislikes(store, Obj(h, ref).id, newDislikeCount, write)
                      h2 == rollbackDislike(h1, ref)
                  IN  IF saved.ok
                      THEN [heap |-> h1, store |-> saved.store,
                            ret |-> [success |-> TRUE, newCount |-> newDislikeCount,
                                     message |-> "Post disliked successfully!"]]
                      ELSE [heap |-> h2, store |-> saved.store,
                            ret |-> [success |-> FALSE,
                                     newCount |-> Obj(h2, ref).dislikes,
                                     message |-> "Failed to save dislike preference"]]

\* Only a SocialPost has getTotalEngagement; the gallery calls this on the
\* entities a repository call has just built.
loadPostInteractionsKeepsFeedCounts(h, store, ref) ==
    LET post == Obj(h, ref)
        likes == IF IsSome(store[LikesKey(post.id)])
                 THEN getLikes(store, post.id) ELSE post.likes
        dislikes == IF IsSome(store[DislikesKey(post.id)])
                    THEN getDislikes(store, post.id) ELSE post.dislikes
        h1 == [h EXCEPT ![ref] =
                 Some([post EXCEPT !.likes = likes, !.dislikes = dislikes])]
    IN  [heap |-> h1,
         ret |-> [likes |-> likes, dislikes |-> dislikes,
                  totalEngagement |-> getTotalEngagement(Obj(h1, ref))]]

loadPostInteractions(h, store, ref) ==
    LET likes == getLikes(store, Obj(h, ref).id)
        dislikes == getDislikes(store, Obj(h, ref).id)
        h1 == [h EXCEPT ![ref] =
                 Some([Obj(h, ref) EXCEPT !.likes = likes, !.dislikes = dislikes])]
    IN  [heap |-> h1,
         ret |-> [likes |-> likes, dislikes |-> dislikes,
                  totalEngagement |-> getTotalEngagement(Obj(h1, ref))]]

(***************************************************************************)
(* The interaction specification: a store and NumEntities entities, on     *)
(* which the service's three synchronous operations are called in any      *)
(* order.                                                                  *)
(***************************************************************************)
EntityRefs == 1..NumEntities

\* no sharePost call made, in a browser that offers nothing
NoShareEnv ==
    [share |-> FALSE, canShare |-> FALSE, accepts |-> FALSE, clipboard |-> FALSE]
ShareIdle ==
    /\ shareEnv = NoShareEnv
    /\ sharePc = "idle"
    /\ shareLog = <<>>
    /\ shareResult = None
    /\ shares = 0

\* no gallery element
NoGallery == gallery = [foxPhotos |-> <<>>]

\* a repository as its constructor leaves it, with no call made
RepoIdle ==
    /\ now = 1
    /\ ticks = 0
    /\ cache = None
    /\ cacheTimestamp = None
    /\ calls = <<>>
    /\ feedRequests = 0
    /\ foxRequests = 0
    /\ lastRepo = [kind |-> "none"]
    /\ lastRandom = [kind |-> "none"]

FeedAuthor ==
    [name |-> "Ann", image |-> "ann.png", userSince |-> "2019", channel |-> "Foxes"]

\* an entity as fetchAll builds it from a feed record reporting 5 likes,
\* or the plain copy of one that the gallery makes
InitialEntity(cls, id) ==
    [SocialPost(id, "a.png", "a_t.png", "T", "2024-01-01", FeedAuthor,
                Num(5), Num(0), 1) EXCEPT !.cls = cls]

\* the store as this program leaves it: a counter of post "1" is absent or
\* holds a count that setLikes/setDislikes wrote
InitialStores ==
    {[k \in StorageKeys |->
        IF k = LikesKey("1") THEN l ELSE IF k = DislikesKey("1") THEN d ELSE None] :
        l \in {None, Some(NumberToString(Num(9)))},
        d \in {None, Some(NumberToString(Num(3)))}}

InitInteract ==
    /\ localStorage \in InitialStores
    /\ heap \in {h \in [EntityRefs -> {Some(InitialEntity(c, i)) :
                                            c \in Classes, i \in PostIds}] :
                    h[1] = Some(InitialEntity("SocialPost", "1"))}
    /\ last = [op |-> "none"]
    /\ tracked = {}
    /\ ops = 0
    /\ RepoIdle
    /\ ShareIdle
    /\ NoGallery

\* the entities, other than ref, whose counters live under the same keys
SameId(h, ref) ==
    {r \in DOMAIN h : r # ref /\ IsSome(h[r]) /\ Obj(h, r).id = Obj(h, ref).id}

LikePost(ref, write) ==
    /\ ops < MaxOps
    /\ LET r == likePost(heap, localStorage, ref, write)
       IN  /\ heap' = r.heap
           /\ localStorage' = r.store
           /\ last' = [op |-> "likePost", ref |-> ref, write |-> write,
                       before |-> Obj(heap, ref), ret |-> r.ret]
           /\ tracked' = IF write = "raises" /\ HasMethods(Obj(heap, ref))
                         THEN tracked \ {ref}
                         ELSE IF r.ret.success THEN tracked \ SameId(heap, ref)
                         ELSE tracked
    /\ ops' = ops + 1
    /\ UNCHANGED notInteractVars

DislikePost(ref, write) ==
    /\ ops < MaxOps
    /\ LET r == dislikePost(heap, localStorage, ref, write)
       IN  /\ heap' = r.heap
           /\ localStorage' = r.store
           /\ last' = [op |-> "dislikePost", ref |-> ref, write |-> write,
                       before |-> Obj(heap, ref), ret |-> r.ret]
           /\ tracked' = IF write = "raises" /\ HasMethods(Obj(heap, ref))
                         THEN tracked \ {ref}
                         ELSE IF r.ret.success THEN tracked \ SameId(heap, ref)
                         ELSE tracked
    /\ ops' = ops + 1
    /\ UNCHANGED notInteractVars

LoadPostInteractions(ref) ==
    /\ ops < MaxOps
    /\ HasMethods(Obj(heap, ref))
    /\ LET r == loadPostInteractions(heap, localStorage, ref)
       IN  /\ heap' = r.heap
           /\ last' = [op |-> "loadPostInteractions", ref |-> ref,
                       before |-> Obj(heap, ref), ret |-> r.ret]
    /\ tracked' = tracked \cup {ref}
    /\ ops' = ops + 1
    /\ UNCHANGED <<localStorage, notInteractVars>>

NextInteract ==
    \/ \E ref \in EntityRefs, write \in WriteOutcomes : LikePost(ref, write)
    \/ \E ref \in EntityRefs, write \in WriteOutcomes : DislikePost(ref, write)
    \/ \E ref \in EntityRefs : LoadPostInteractions(ref)

SpecInteract == InitInteract /\ [][NextInteract]_vars

(***************************************************************************)
(* Properties of likePost, dislikePost and loadPostInteractions            *)
(* (specification SpecInteract).                                           *)
(***************************************************************************)
LastIsLikeOrDislike == last.op \in {"likePost", "dislikePost"}
\* the counter the last call is about, of an object
LastCounter(post) == IF last.op = "likePost" THEN post.likes ELSE post.dislikes

\* C1: likePost (dislikePost) on a SocialPost whose likes (dislikes) are n,
\* with a store whose write returns true, leaves the counter at n+1 and
\* returns success = true, newCount = n+1; with a store whose write returns
\* false it leaves the counter at n and returns success = false, newCount = n.
C1_PersistOrRollback ==
    (LastIsLikeOrDislike /\ HasMethods(last.before) /\ last.write \in SetItemOutcomes) =>
        LET n == LastCounter(last.before)
            now_ == LastCounter(Obj(heap, last.ref))
        IN  IF last.write = "stored"
            THEN now_ = JsInc(n) /\ last.ret.success /\ last.ret.newCount = JsInc(n)
            ELSE now_ = n /\ ~last.ret.success /\ last.ret.newCount = n

\* a like whose write returned false has been rolled back
C1_Witness ==
    /\ last.op = "likePost" /\ HasMethods(last.before) /\ last.write = "quota"
    /\ Obj(heap, last.ref).likes = Num(5) /\ ~last.ret.success

C3_FaultPreservesCount ==
    (LastIsLikeOrDislike /\ (~HasMethods(last.before) \/ last.write = "raises")) =>
        /\ ~last.ret.success
        /\ last.ret.newCount = LastCounter(last.before)
        /\ LastCounter(Obj(heap, last.ref)) = LastCounter(last.before)

(***************************************************************************)
(* SocialPostRepository                                                    *)
(***************************************************************************)
cacheExpiry == 5 * 60 * 1000
\* Math.floor(ms / 86400000): the day that toISOString().split('T')[0] names
MsPerDay == 24 * 60 * 60 * 1000

\* this.cache && this.cacheTimestamp &&
\*     (Date.now() - this.cacheTimestamp) < this.cacheExpiry
\* (an array, even an empty one, is truthy; the number 0 is not)
isCacheValidAtOrBelowExpiry(c, ts, t) ==
    /\ IsSome(c)
    /\ IsSome(ts) /\ Get(ts) # 0
    /\ (t - Get(ts)) <= cacheExpiry

isCacheValid(c, ts, t) ==
    /\ IsSome(c)
    /\ IsSome(ts) /\ Get(ts) # 0
    /\ (t - Get(ts)) < cacheExpiry

\* What the feed source can answer.  fetch() resolves with response.ok true
\* or false, or rejects; response.json() resolves with the parsed body or
\* rejects.
FetchOutcomes == {"ok", "notOk", "networkFault"}

BobAuthor ==
    [name |-> "Bob", image |-> "bob.png", userSince |-> "2021", channel |-> "Dogs"]

\* raw feed records: likes and dislikes are optional
FeedRecord1 ==
    [id |-> "1", source |-> "a.png", thumbnail |-> "a_t.png", title |-> "T",
     date |-> "2024-01-01", author |-> FeedAuthor, likes |-> 5]
FeedRecord2 ==
    [id |-> "2", source |-> "b.png", thumbnail |-> "b_t.png", title |-> "U",
     date |-> "2024-02-02", author |-> BobAuthor, likes |-> 0, dislikes |-> 2]
FeedRecords == {FeedRecord1, FeedRecord2}

\* a record without author: new SocialPost(...) reads authorData.name of
\* undefined and throws
RecordWithoutAuthor ==
    [id |-> "1", source |-> "a.png", thumbnail |-> "a_t.png", title |-> "T",
     date |-> "2024-01-01"]

SeqsUpTo(S, n) == UNION {[1..k -> S] : k \in 0..n}

\* parsed bodies: a photos array, no photos field, photos that is no array,
\* a photos array with a record that cannot be constructed
FeedData ==
    {[photos |-> [isArray |-> TRUE, items |-> ps]] : ps \in SeqsUpTo(FeedRecords, MaxPhotos)}
    \cup {[error |-> "not found"],
          [photos |-> [isArray |-> FALSE]],
          [photos |-> [isArray |-> TRUE, items |-> <<RecordWithoutAuthor>>]]}

\* response.json(): None when the body cannot be parsed
FeedJsonOutcomes == {None} \cup {Some(d) : d \in FeedData}

FoxData == {[image |-> "fox1.jpg"], [image |-> "fox2.jpg"]}
FoxJsonOutcomes == {None} \cup {Some(d) : d \in FoxData}

\* data.photos && Array.isArray(data.photos)
HasPhotosArray(data) == "photos" \in DOMAIN data /\ data.photos.isArray

\* photoData.likes || 0
OrZero(photoData, field) ==
    IF field \in DOMAIN photoData /\ photoData[field] # 0 THEN photoData[field] ELSE 0

CanConstruct(photoData) == "author" \in DOMAIN photoData

\* new SocialPost(photoData.id, ..., photoData.likes || 0, photoData.dislikes || 0)
FeedPostCountsSwapped(photoData, t) ==
    SocialPost(photoData.id, photoData.source, photoData.thumbnail, photoData.title,
               photoData.date, photoData.author,
               Num(OrZero(photoData, "dislikes")), Num(OrZero(photoData, "likes")), t)

FeedPost(photoData, t) ==
    SocialPost(photoData.id, photoData.source, photoData.thumbnail, photoData.title,
               photoData.date, photoData.author,
               Num(OrZero(photoData, "likes")), Num(OrZero(photoData, "dislikes")), t)

\* new SocialPost(`fox-${Date.now()}-${i}`, foxData.image, foxData.image, ...)
FoxId(t, i) == "fox-" \o ToString(t) \o "-" \o ToString(i)
FoxPost(foxData, i, t) ==
    SocialPost(FoxId(t, i), foxData.image, foxData.image,
               <<"Random Fox Photo #", i + 1>>, <<"isoDate", t \div MsPerDay>>,
               [name |-> "RandomFox API",
                image |-> "https://randomfox.ca/images/randomfox-logo.png",
                userSince |-> "2020", channel |-> "Fox Photos"],
               Num(0), Num(0), t)

\* `new` in the heap: the objects get the lowest free references
Free(h) == {r \in DOMAIN h : h[r] = None}
RECURSIVE LowestFree(_, _)
LowestFree(free, k) ==
    IF k = 0 THEN <<>>
    ELSE LET r == CHOOSE x \in free : \A y \in free : x <= y
         IN  <<r>> \o LowestFree(free \ {r}, k - 1)

Alloc(h, objs) ==
    LET refs == LowestFree(Free(h), Len(objs))
    IN  [heap |-> [r \in DOMAIN h |->
                     IF \E i \in 1..Len(refs) : refs[i] = r
                     THEN Some(objs[CHOOSE i \in 1..Len(refs) : refs[i] = r])
                     ELSE h[r]],
         refs |-> refs]

\* garbage collection: an object that nothing refers to is gone
Range(f) == {f[i] : i \in DOMAIN f}
Collect(h, roots) == [r \in DOMAIN h |-> IF r \in roots THEN h[r] ELSE None]

\* data.photos.map(photoData => new SocialPost(...))
MapPhotos(photos, t) == [i \in 1..Len(photos) |-> FeedPost(photos[i], t)]

\* new Error(`Failed to fetch social posts: ${error.message}`)
FetchAllError(cause) == [message |-> "Failed to fetch social posts", cause |-> cause]
FetchRandomError(cause) == [message |-> "Failed to fetch random fox posts", cause |-> cause]

(***************************************************************************)
(* The repository specifications.  A call of an async method is a sequence *)
(* of steps, one per await; steps of different calls interleave.  A call   *)
(* that has returned or raised leaves its slot; what it returned is kept   *)
(* in lastRepo or lastRandom.                                              *)
(***************************************************************************)
CallIds == 1..MaxCalls
HeapRefs == 1..(2 * MaxPhotos + MaxFoxRequests)

Idle == [pc |-> "idle"]

\* what a fetchAll remembers of the fetchAll/clearCache event before it
Before(ev) ==
    [kind |-> ev.kind,
     clearedFresh |-> /\ ev.kind = "clearCache"
                      /\ IsSome(ev.cache)
                      /\ ev.at - Get(ev.cacheTimestamp) < cacheExpiry]
InFlight(c) == calls[c].pc \in {"fetch", "json"}
NoCallInFlight == \A c \in CallIds : ~InFlight(c)

\* the references the repository, its calls and their last results hold
ResultRefs(ev) == IF "result" \in DOMAIN ev THEN Range(ev.result) ELSE {}
Roots(cch, cls, ev, rnd) ==
    (IF IsSome(cch) THEN Range(Get(cch)) ELSE {})
    \cup UNION {IF "posts" \in DOMAIN cls[c] THEN Range(cls[c].posts) ELSE {} :
                c \in DOMAIN cls}
    \cup ResultRefs(ev) \cup ResultRefs(rnd)

InitRepo ==
    /\ localStorage = [k \in StorageKeys |-> None]
    /\ last = [op |-> "none"]
    /\ tracked = {}
    /\ ops = 0
    /\ heap = [r \in HeapRefs |-> None]
    /\ now = 1
    /\ ticks = 0
    /\ cache = None
    /\ cacheTimestamp = None
    /\ calls = [c \in CallIds |-> Idle]
    /\ feedRequests = 0
    /\ foxRequests = 0
    /\ lastRepo = [kind |-> "none"]
    /\ lastRandom = [kind |-> "none"]
    /\ ShareIdle
    /\ NoGallery

\* The clock advances between any two steps.
TickSteps == {1, cacheExpiry - 1}
Tick(d) ==
    /\ ticks < MaxTicks
    /\ now' = now + d
    /\ ticks' = ticks + 1
    /\ UNCHANGED <<heap, notRepoVars, cache, cacheTimestamp, calls,
                   feedRequests, foxRequests, lastRepo, lastRandom>>

\* fetchAll up to its first await: the cache is returned, or the feed
\* source is asked
FetchAllStartJoinsInFlight(c) ==
    /\ ~InFlight(c)
    /\ IF isCacheValid(cache, cacheTimestamp, now)
       THEN /\ lastRepo' = [kind |-> "fetchAllHit", after |-> Before(lastRepo),
                            at |-> now, cache |-> cache,
                            cacheTimestamp |-> cacheTimestamp,
                            feedRequests |-> feedRequests, result |-> Get(cache)]
            /\ UNCHANGED <<feedRequests, calls>>
       ELSE /\ feedRequests < MaxFeedRequests
            /\ feedRequests' = IF NoCallInFlight THEN feedRequests + 1
                               ELSE feedRequests
            /\ calls' = [calls EXCEPT ![c] =
                           [op |-> "fetchAll", pc |-> "fetch",
                            cacheBefore |-> cache, timestampBefore |-> cacheTimestamp]]
            /\ lastRepo' = [kind |-> "fetchAllMiss", after |-> Before(lastRepo),
                            at |-> now, cache |-> cache,
                            cacheTimestamp |-> cacheTimestamp,
                            feedRequests |-> feedRequests]
    /\ UNCHANGED <<notRepoVars, now, ticks, cache, cacheTimestamp, foxRequests,
                   lastRandom>>
    /\ heap' = Collect(heap, Roots(cache', calls', lastRepo', lastRandom'))

FetchAllStart(c) ==
    /\ ~InFlight(c)
    /\ IF isCacheValid(cache, cacheTimestamp, now)
       THEN /\ lastRepo' = [kind |-> "fetchAllHit", after |-> Before(lastRepo),
                            at |-> now, cache |-> cache,
                            cacheTimestamp |-> cacheTimestamp,
                            feedRequests |-> feedRequests, result |-> Get(cache)]
            /\ UNCHANGED <<feedRequests, calls>>
       ELSE /\ feedRequests < MaxFeedRequests
            /\ feedRequests' = feedRequests + 1
            /\ calls' = [calls EXCEPT ![c] =
                           [op |-> "fetchAll", pc |-> "fetch",
                            cacheBefore |-> cache, timestampBefore |-> cacheTimestamp]]
            /\ lastRepo' = [kind |-> "fetchAllMiss", after |-> Before(lastRepo),
                            at |-> now, cache |-> cache,
                            cacheTimestamp |-> cacheTimestamp,
                            feedRequests |-> feedRequests]
    /\ UNCHANGED <<notRepoVars, now, ticks, cache, cacheTimestamp, foxRequests,
                   lastRandom>>
    /\ heap' = Collect(heap, Roots(cache', calls', lastRepo', lastRandom'))

\* the catch block of fetchAll
FetchAllRaiseCachesNothing(c, cause) ==
    /\ calls' = [calls EXCEPT ![c] = Idle]
    /\ lastRepo' = [kind |-> "fetchAllRaised", error |-> FetchAllError(cause),
                    cacheBefore |-> calls[c].cacheBefore,
                    timestampBefore |-> calls[c].timestampBefore]
    /\ cache' = Some(<<>>)
    /\ cacheTimestamp' = Some(now)
    /\ heap' = Collect(heap, Roots(cache', calls', lastRepo', lastRandom'))

FetchAllRaise(c, cause) ==
    /\ calls' = [calls EXCEPT ![c] = Idle]
    /\ lastRepo' = [kind |-> "fetchAllRaised", error |-> FetchAllError(cause),
                    cacheBefore |-> calls[c].cacheBefore,
                    timestampBefore |-> calls[c].timestampBefore]
    /\ UNCHANGED <<cache, cacheTimestamp>>
    /\ heap' = Collect(heap, Roots(cache', calls', lastRepo', lastRandom'))

\* `await fetch(this.dataSource)` settles
FetchAllResponse(c, outcome) ==
    /\ calls[c].pc = "fetch" /\ calls[c].op = "fetchAll"
    /\ UNCHANGED <<notRepoVars, now, ticks, feedRequests, foxRequests, lastRandom>>
    /\ IF outcome = "ok"
       THEN /\ calls' = [calls EXCEPT ![c].pc = "json"]
            /\ UNCHANGED <<heap, cache, cacheTimestamp, lastRepo>>
       ELSE FetchAllRaise(c, outcome)

\* this.cache = posts; this.cacheTimestamp = Date.now(); return posts
FetchAllStore(c, photos) ==
    LET a == Alloc(heap, MapPhotos(photos, now))
    IN  /\ cache' = Some(a.refs)
        /\ cacheTimestamp' = Some(now)
        /\ calls' = [calls EXCEPT ![c] = Idle]
        /\ lastRepo' = [kind |-> "fetchAllReturned", photos |-> photos,
                        at |-> now, result |-> a.refs]
        /\ heap' = Collect(a.heap, Roots(cache', calls', lastRepo', lastRandom'))

\* `await response.json()` settles; the rest of fetchAll runs
FetchAllJson(c, body) ==
    /\ calls[c].pc = "json" /\ calls[c].op = "fetchAll"
    /\ UNCHANGED <<notRepoVars, now, ticks, feedRequests, foxRequests, lastRandom>>
    /\ IF body = None
       THEN FetchAllRaise(c, "unparsable")
       ELSE IF ~HasPhotosArray(Get(body))
       THEN FetchAllRaise(c, "Invalid data format: photos array not found")
       ELSE IF \E i \in 1..Len(Get(body).photos.items) :
                   ~CanConstruct(Get(body).photos.items[i])
       THEN FetchAllRaise(c, "TypeError")
       ELSE FetchAllStore(c, Get(body).photos.items)

ClearCacheIfExpired ==
    /\ IF isCacheValid(cache, cacheTimestamp, now)
       THEN UNCHANGED <<cache, cacheTimestamp>>
       ELSE cache' = None /\ cacheTimestamp' = None
    /\ lastRepo' = [kind |-> "clearCache", at |-> now, cache |-> cache,
                    cacheTimestamp |-> cacheTimestamp]
    /\ UNCHANGED <<notRepoVars, now, ticks, calls, feedRequests, foxRequests,
                   lastRandom>>
    /\ heap' = Collect(heap, Roots(cache', calls', lastRepo', lastRandom'))

ClearCacheKeepsTimestamp ==
    /\ cache' = None
    /\ UNCHANGED cacheTimestamp
    /\ lastRepo' = [kind |-> "clearCache", at |-> now, cache |-> cache,
                    cacheTimestamp |-> cacheTimestamp]
    /\ UNCHANGED <<notRepoVars, now, ticks, calls, feedRequests, foxRequests,
                   lastRandom>>
    /\ heap' = Collect(heap, Roots(cache', calls', lastRepo', lastRandom'))

ClearCache ==
    /\ cache' = None
    /\ cacheTimestamp' = None
    /\ lastRepo' = [kind |-> "clearCache", at |-> now, cache |-> cache,
                    cacheTimestamp |-> cacheTimestamp]
    /\ UNCHANGED <<notRepoVars, now, ticks, calls, feedRequests, foxRequests,
                   lastRandom>>
    /\ heap' = Collect(heap, Roots(cache', calls', lastRepo', lastRandom'))

\* The for loop of fetchRandomFoxPosts at `i < count`, with the iterations
\* before i over: the next request is made, or the posts are returned.
\* `outcomes` lists how each request made so far ended.
RandomLoopCachesResult(c, count, i, posts, outcomes) ==
    IF i < count
    THEN /\ foxRequests' = foxRequests + 1
         /\ calls' = [calls EXCEPT ![c] =
                        [op |-> "random", pc |-> "fetch", count |-> count, i |-> i,
                         posts |-> posts, outcomes |-> outcomes]]
         /\ UNCHANGED <<lastRandom, cache, cacheTimestamp>>
    ELSE /\ UNCHANGED foxRequests
         /\ cache' = Some(posts)
         /\ cacheTimestamp' = Some(now)
         /\ calls' = [calls EXCEPT ![c] = Idle]
         /\ lastRandom' = [kind |-> "returned", count |-> count, result |-> posts,
                           outcomes |-> outcomes]

RandomLoop(c, count, i, posts, outcomes) ==
    IF i < count
    THEN /\ foxRequests' = foxRequests + 1
         /\ calls' = [calls EXCEPT ![c] =
                        [op |-> "random", pc |-> "fetch", count |-> count, i |-> i,
                         posts |-> posts, outcomes |-> outcomes]]
         /\ UNCHANGED <<lastRandom, cache, cacheTimestamp>>
    ELSE /\ UNCHANGED <<foxRequests, cache, cacheTimestamp>>
         /\ calls' = [calls EXCEPT ![c] = Idle]
         /\ lastRandom' = [kind |-> "returned", count |-> count, result |-> posts,
                           outcomes |-> outcomes]

\* the catch block of fetchRandomFoxPosts
RandomRaise(c, cause) ==
    /\ calls' = [calls EXCEPT ![c] = Idle]
    /\ lastRandom' = [kind |-> "raised", count |-> calls[c].count,
                      error |-> FetchRandomError(cause),
                      outcomes |-> Append(calls[c].outcomes, cause)]
    /\ UNCHANGED <<foxRequests, cache, cacheTimestamp>>

FetchRandomStart(c, count) ==
    /\ ~InFlight(c)
    /\ foxRequests + count <= MaxFoxRequests
    /\ RandomLoop(c, count, 0, <<>>, <<>>)
    /\ UNCHANGED <<notRepoVars, now, ticks, feedRequests, lastRepo>>
    /\ heap' = Collect(heap, Roots(cache', calls', lastRepo', lastRandom'))

\* `await fetch('https://randomfox.ca/floof/')` settles
FetchRandomResponse(c, outcome) ==
    /\ calls[c].pc = "fetch" /\ calls[c].op = "random"
    /\ UNCHANGED <<notRepoVars, now, ticks, feedRequests, lastRepo>>
    /\ IF outcome = "ok"
       THEN /\ calls' = [calls EXCEPT ![c].pc = "json"]
            /\ UNCHANGED <<foxRequests, lastRandom, cache, cacheTimestamp>>
       ELSE IF outcome = "notOk"
       THEN \* console.warn(...); continue
            RandomLoop(c, calls[c].count, calls[c].i + 1, calls[c].posts,
                       Append(calls[c].outcomes, "notOk"))
       ELSE RandomRaise(c, outcome)
    /\ heap' = Collect(heap, Roots(cache', calls', lastRepo', lastRandom'))

\* `await response.json()` settles; the post is built and pushed
FetchRandomJson(c, body) ==
    /\ calls[c].pc = "json" /\ calls[c].op = "random"
    /\ UNCHANGED <<notRepoVars, now, ticks, feedRequests, lastRepo>>
    /\ IF body = None
       THEN /\ RandomRaise(c, "unparsable")
            /\ heap' = Collect(heap, Roots(cache', calls', lastRepo', lastRandom'))
       ELSE LET a == Alloc(heap, <<FoxPost(Get(body), calls[c].i, now)>>)
            IN  /\ RandomLoop(c, calls[c].count, calls[c].i + 1,
                              calls[c].posts \o a.refs,
                              Append(calls[c].outcomes, "ok"))
                /\ heap' = Collect(a.heap, Roots(cache', calls', lastRepo', lastRandom'))

\* fetchAll and clearCache, calls overlapping freely
NextRepo ==
    \/ \E d \in TickSteps : Tick(d)
    \/ \E c \in CallIds : FetchAllStart(c)
    \/ \E c \in CallIds, outcome \in FetchOutcomes : FetchAllResponse(c, outcome)
    \/ \E c \in CallIds, body \in FeedJsonOutcomes : FetchAllJson(c, body)
    \/ ClearCache

SpecRepo == InitRepo /\ [][NextRepo]_vars

\* fetchAll and clearCache as a caller makes them who awaits each call
\* before making the next
NextRepoSeq ==
    \/ \E d \in TickSteps : Tick(d)
    \/ \E c \in CallIds : NoCallInFlight /\ FetchAllStart(c)
    \/ \E c \in CallIds, outcome \in FetchOutcomes : FetchAllResponse(c, outcome)
    \/ \E c \in CallIds, body \in FeedJsonOutcomes : FetchAllJson(c, body)
    \/ NoCallInFlight /\ ClearCache

SpecRepoSeq == InitRepo /\ [][NextRepoSeq]_vars

\* fetchRandomFoxPosts, one batch at a time, called on a repository whose
\* cache is empty or was filled by a fetchAll at time 1; the clock makes
\* that record expire
CachedFeed == Alloc([r \in HeapRefs |-> None], MapPhotos(<<FeedRecord1>>, 1))

InitRandom ==
    /\ localStorage = [k \in StorageKeys |-> None]
    /\ last = [op |-> "none"]
    /\ tracked = {}
    /\ ops = 0
    /\ now = 1
    /\ ticks = 0
    /\ \/ cache = None /\ cacheTimestamp = None /\ heap = [r \in HeapRefs |-> None]
       \/ cache = Some(CachedFeed.refs) /\ cacheTimestamp = Some(1)
          /\ heap = CachedFeed.heap
    /\ calls = [c \in CallIds |-> Idle]
    /\ feedRequests = 0
    /\ foxRequests = 0
    /\ lastRepo = [kind |-> "none"]
    /\ lastRandom = [kind |-> "none"]
    /\ ShareIdle
    /\ NoGallery

NextRandom ==
    \/ \E d \in TickSteps : Tick(d)
    \/ \E c \in CallIds, count \in 0..MaxFoxRequests :
          NoCallInFlight /\ FetchRandomStart(c, count)
    \/ \E c \in CallIds, outcome \in FetchOutcomes : FetchRandomResponse(c, outcome)
    \/ \E c \in CallIds, body \in FoxJsonOutcomes : FetchRandomJson(c, body)

SpecRandom == InitRandom /\ [][NextRandom]_vars

(***************************************************************************)
(* Properties of the repository.                                           *)
(***************************************************************************)
LastIsFetchAllStart == lastRepo.kind \in {"fetchAllHit", "fetchAllMiss"}
\* the age, when the last fetchAll began, of the cache record it found
AgeAtStart == lastRepo.at - Get(lastRepo.cacheTimestamp)
FoundRecord == IsSome(lastRepo.cache) /\ IsSome(lastRepo.cacheTimestamp)
FiveMinutes == 5 * 60 * 1000

\* C4 (SpecRepo): a fetchAll made while a cache record exists whose age is
\* under 5 minutes makes no remote request and returns the cached sequence;
\* one made when the age is 5 minutes or more makes a remote request; so a
\* fetchAll that follows a refresh within the TTL adds no request.
C4_FreshCacheNoRequest ==
    LastIsFetchAllStart =>
        /\ (FoundRecord /\ AgeAtStart < FiveMinutes) =>
               /\ lastRepo.kind = "fetchAllHit"
               /\ feedRequests = lastRepo.feedRequests
               /\ lastRepo.result = Get(lastRepo.cache)
        /\ (FoundRecord /\ AgeAtStart >= FiveMinutes) =>
               /\ lastRepo.kind = "fetchAllMiss"
               /\ feedRequests = lastRepo.feedRequests + 1
        /\ (lastRepo.after.kind = "fetchAllReturned" /\ AgeAtStart < FiveMinutes) =>
               feedRequests = lastRepo.feedRequests

\* a fetchAll right after a refresh, one millisecond before the record
\* expires: one request in all
C4_Witness ==
    /\ lastRepo.kind = "fetchAllHit" /\ lastRepo.after.kind = "fetchAllReturned"
    /\ AgeAtStart = FiveMinutes - 1
    /\ feedRequests = 1

\* C5 (SpecRepoSeq): a fetchAll whose refresh fails raises a repository
\* error and leaves cache and cacheTimestamp as they were before the call,
\* and the fetchAll after it makes a remote request.
C5_FailedRefreshNotCached ==
    /\ lastRepo.kind = "fetchAllRaised" =>
          /\ lastRepo.error.message = "Failed to fetch social posts"
          /\ cache = lastRepo.cacheBefore
          /\ cacheTimestamp = lastRepo.timestampBefore
    /\ (LastIsFetchAllStart /\ lastRepo.after.kind = "fetchAllRaised") =>
          /\ lastRepo.kind = "fetchAllMiss"
          /\ feedRequests = lastRepo.feedRequests + 1

\* a refresh of an expired record has failed on a payload without photos
C5_Witness ==
    /\ lastRepo.kind = "fetchAllRaised"
    /\ lastRepo.error.cause = "Invalid data format: photos array not found"
    /\ IsSome(cache) /\ Len(Get(cache)) = 2
    /\ now - Get(cacheTimestamp) >= FiveMinutes

\* what a feed record says of a counter: its value, 0 when it has none
Reported(photoData, field) ==
    IF field \in DOMAIN photoData THEN Num(photoData[field]) ELSE Num(0)

\* C6 (SpecRepo): a refreshing fetchAll returns one post per record of the
\* photos array, in order, the i-th with the i-th record's id, source,
\* thumbnail, title, date and author and with its likes and dislikes (0 when
\* the record has none); the cache becomes that sequence and the timestamp
\* the time of the refresh.
C6_RecordsMappedOneToOne ==
    lastRepo.kind = "fetchAllReturned" =>
        /\ Len(lastRepo.result) = Len(lastRepo.photos)
        /\ \A i \in 1..Len(lastRepo.photos) :
              LET post == Obj(heap, lastRepo.result[i])
                  photoData == lastRepo.photos[i]
              IN  /\ post.id = photoData.id
                  /\ post.source = photoData.source
                  /\ post.thumbnail = photoData.thumbnail
                  /\ post.title = photoData.title
                  /\ post.date = photoData.date
                  /\ post.author = photoData.author
                  /\ post.likes = Reported(photoData, "likes")
                  /\ post.dislikes = Reported(photoData, "dislikes")
        /\ cache = Some(lastRepo.result)
        /\ cacheTimestamp = Some(lastRepo.at)

\* two records, the second without dislikes, replace an older record
C6_Witness ==
    /\ lastRepo.kind = "fetchAllReturned"
    /\ lastRepo.photos = <<FeedRecord2, FeedRecord1>>
    /\ lastRepo.at > FiveMinutes
    /\ Obj(heap, Get(cache)[2]).dislikes = Num(0)

\* C7 (SpecRepoSeq): clearCache empties the cache record whatever its age,
\* and the first fetchAll after a clearCache makes a remote request.
C7_ClearCacheForcesRequest ==
    /\ lastRepo.kind = "clearCache" => (cache = None /\ cacheTimestamp = None)
    /\ (LastIsFetchAllStart /\ lastRepo.after.kind = "clearCache") =>
          /\ lastRepo.kind = "fetchAllMiss"
          /\ feedRequests = lastRepo.feedRequests + 1

\* a record still within its TTL was cleared, and the next fetchAll asked
\* the feed source again
C7_Witness ==
    /\ lastRepo.kind = "fetchAllMiss"
    /\ lastRepo.after.kind = "clearCache" /\ lastRepo.after.clearedFresh
    /\ feedRequests = 2

\* the requests of the last batch that ended with a post
OkCalls(outcomes) == {i \in 1..Len(outcomes) : outcomes[i] = "ok"}

\* C8 (SpecRandom): whatever the outcome of each request (success,
\* non-success response, network fault, unparsable body), fetchRandomFoxPosts
\* makes all count requests and returns one post per successful request, in
\* request order.
C8_EveryRequestMade ==
    lastRandom.kind # "none" =>
        /\ lastRandom.kind = "returned"
        /\ Len(lastRandom.outcomes) = lastRandom.count
        /\ Len(lastRandom.result) = Cardinality(OkCalls(lastRandom.outcomes))
        /\ \A k \in 1..Len(lastRandom.result) :
              LET i == CHOOSE j \in OkCalls(lastRandom.outcomes) :
                          Cardinality({m \in OkCalls(lastRandom.outcomes) : m <= j}) = k
                  post == Obj(heap, lastRandom.result[k])
              IN  post.id = FoxId(post.createdAt, i - 1)

\* C9 (SpecRandom): no step of fetchRandomFoxPosts changes cache or
\* cacheTimestamp, whether the cache is empty, fresh or expired and whether
\* the batch returns or raises, and the posts it returns are new ones, none
\* of them taken from the cache.
C9_RandomLeavesCache ==
    /\ [][cache' = cache /\ cacheTimestamp' = cacheTimestamp]_vars
    /\ [](lastRandom.kind = "returned" =>
            /\ Range(lastRandom.result) \cap
                  (IF IsSome(cache) THEN Range(Get(cache)) ELSE {}) = {}
            /\ \A k \in 1..Len(lastRandom.result) :
                  LET post == Obj(heap, lastRandom.result[k])
                  IN  \E i \in 0..(MaxFoxRequests - 1) :
                         post.id = FoxId(post.createdAt, i))

\* a batch has returned a post while the cache held an expired record
C9_Witness ==
    /\ lastRandom.kind = "returned" /\ Len(lastRandom.result) = 1
    /\ lastRandom.outcomes = <<"notOk", "ok">>
    /\ IsSome(cache) /\ now - Get(cacheTimestamp) >= FiveMinutes

(***************************************************************************)
(* SocialInteractionService.sharePost                                      *)
(***************************************************************************)
\* shareEnv says what the browser has: navigator.share, navigator.canShare,
\* whether canShare(shareData) answers true, and navigator.clipboard with
\* writeText.  A promise resolves or rejects; document.execCommand('copy')
\* returns true or false, or throws.
ShareEnvs ==
    [share : BOOLEAN, canShare : BOOLEAN, accepts : BOOLEAN, clipboard : BOOLEAN]
PromiseOutcomes == {"resolved", "rejected"}
ExecCommandOutcomes == {"true", "false", "throws"}
Strategies == <<"native", "clipboard", "execCommand">>

NativeShareOfferedAfterClipboard(env) ==
    env.share /\ env.canShare /\ env.accepts /\ ~env.clipboard
\* navigator.share && navigator.canShare && navigator.canShare(shareData)
NativeShareOffered(env) == env.share /\ env.canShare /\ env.accepts
\* navigator.clipboard && navigator.clipboard.writeText
ClipboardOffered(env) == env.clipboard

ShareSucceeded(method, message) ==
    Some([success |-> TRUE, method |-> method, message |-> message])
\* the catch block of sharePost
ShareFailed ==
    Some([success |-> FALSE, method |-> "none",
          message |-> "Unable to share at this time"])

InitShare ==
    /\ localStorage = [k \in StorageKeys |-> None]
    /\ last = [op |-> "none"]
    /\ tracked = {}
    /\ ops = 0
    /\ \E cls \in Classes : heap = <<Some(InitialEntity(cls, "1"))>>
    /\ RepoIdle
    /\ shareEnv \in ShareEnvs
    /\ sharePc = "idle"
    /\ shareLog = <<>>
    /\ shareResult = None
    /\ shares = 0
    /\ NoGallery

\* the copy through a textarea and document.execCommand('copy')
LegacyCopy(exec) ==
    /\ shareLog' = <<[strategy |-> "execCommand", outcome |-> exec]>>
    /\ sharePc' = "idle"
    /\ shareResult' = IF exec = "true"
                      THEN ShareSucceeded("execCommand", "Share link copied to clipboard!")
                      ELSE ShareFailed

\* sharePost up to its first await, or to its end when nothing is awaited;
\* post.getShareableContent() raises on an object without the methods
SharePostStart(ref, exec) ==
    /\ sharePc = "idle"
    /\ shares < MaxShares
    /\ shares' = shares + 1
    /\ IF ~HasMethods(Obj(heap, ref))
       THEN /\ sharePc' = "idle"
            /\ shareLog' = <<>>
            /\ shareResult' = ShareFailed
       ELSE IF NativeShareOffered(shareEnv)
       THEN /\ sharePc' = "share"
            /\ shareLog' = <<>>
            /\ shareResult' = None
       ELSE IF ClipboardOffered(shareEnv)
       THEN /\ sharePc' = "writeText"
            /\ shareLog' = <<>>
            /\ shareResult' = None
       ELSE LegacyCopy(exec)
    /\ UNCHANGED <<heap, interactVars, repoVars, shareEnv>>

\* `await navigator.share(shareData)` settles
NativeShareSettled(outcome) ==
    /\ sharePc = "share"
    /\ shareLog' = Append(shareLog, [strategy |-> "native", outcome |-> outcome])
    /\ sharePc' = "idle"
    /\ shareResult' = IF outcome = "resolved"
                      THEN ShareSucceeded("native", "Post shared successfully!")
                      ELSE ShareFailed
    /\ UNCHANGED <<heap, interactVars, repoVars, shareEnv, shares>>

\* `await navigator.clipboard.writeText(shareText)` settles
ClipboardWriteSettled(outcome) ==
    /\ sharePc = "writeText"
    /\ shareLog' = Append(shareLog, [strategy |-> "clipboard", outcome |-> outcome])
    /\ sharePc' = "idle"
    /\ shareResult' = IF outcome = "resolved"
                      THEN ShareSucceeded("clipboard", "Share link copied to clipboard!")
                      ELSE ShareFailed
    /\ UNCHANGED <<heap, interactVars, repoVars, shareEnv, shares>>

NextShare ==
    \/ \E exec \in ExecCommandOutcomes : SharePostStart(1, exec) /\ UNCHANGED gallery
    \/ \E outcome \in PromiseOutcomes : NativeShareSettled(outcome) /\ UNCHANGED gallery
    \/ \E outcome \in PromiseOutcomes :
          ClipboardWriteSettled(outcome) /\ UNCHANGED gallery

SpecShare == InitShare /\ [][NextShare]_vars

(***************************************************************************)
(* Properties of sharePost (specification SpecShare).                      *)
(***************************************************************************)
FailedIn(strategy) ==
    \E i \in 1..Len(shareLog) :
        /\ shareLog[i].strategy = strategy
        /\ shareLog[i].outcome \in {"rejected", "false", "throws"}
\* the legacy copy needs nothing of the browser but the document
Offered(strategy) ==
    CASE strategy = "native" -> NativeShareOffered(shareEnv)
      [] strategy = "clipboard" -> ClipboardOffered(shareEnv)
      [] strategy = "execCommand" -> TRUE

\* C10 (SpecShare): sharePost returns success = false, method = 'none' only
\* when each of the three strategies was unavailable or was tried and
\* failed; a strategy that raises is followed by the next one.
C10_NoneOnlyWhenAllFail ==
    (sharePc = "idle" /\ shareResult = ShareFailed) =>
        \A i \in 1..Len(Strategies) :
            ~Offered(Strategies[i]) \/ FailedIn(Strategies[i])

\* what the browser has, read from shareEnv itself
NativeUsable == shareEnv.share /\ shareEnv.canShare /\ shareEnv.accepts
ClipboardUsable == shareEnv.clipboard
Attempted(strategy) ==
    \/ \E i \in 1..Len(shareLog) : shareLog[i].strategy = strategy
    \/ strategy = "native" /\ sharePc = "share"
    \/ strategy = "clipboard" /\ sharePc = "writeText"
SucceededIn ==
    {i \in 1..Len(shareLog) : shareLog[i].outcome \in {"resolved", "true"}}
ShareMethods == {"native", "clipboard", "execCommand", "none"}

\* C11 (SpecShare): sharePost takes the strategies in the order native,
\* clipboard, legacy copy: the clipboard is written only when native share
\* is unavailable or refuses the payload, the legacy copy runs only when
\* neither native share nor the clipboard is available, at most one strategy
\* succeeds, and the result has success = (method # 'none') with method one
\* of native, clipboard, execCommand, none.
C11_StrictPriorityOrder ==
    /\ Attempted("clipboard") => ~NativeUsable
    /\ Attempted("execCommand") => (~NativeUsable /\ ~ClipboardUsable)
    /\ Cardinality(SucceededIn) <= 1
    /\ IsSome(shareResult) =>
          /\ Get(shareResult).method \in ShareMethods
          /\ Get(shareResult).success = (Get(shareResult).method # "none")
          /\ \A i \in SucceededIn : Get(shareResult).method = shareLog[i].strategy

\* navigator.share exists but canShare refuses the payload, and the
\* clipboard write succeeded
C11_Witness ==
    /\ shareEnv.share /\ shareEnv.canShare /\ ~shareEnv.accepts
    /\ shareResult = ShareSucceeded("clipboard", "Share link copied to clipboard!")
    /\ shareLog = <<[strategy |-> "clipboard", outcome |-> "resolved"]>>

(***************************************************************************)
(* Further properties of the interaction service (SpecInteract).           *)
(***************************************************************************)
\* C12 (SpecInteract): loadPostInteractions(post) sets post.likes to
\* getLikes(post.id) and post.dislikes to getDislikes(post.id) whatever the
\* post held before, returns these two counts and their sum as
\* totalEngagement, and leaves the store as it was.
C12_LoadOverwritesFromStore ==
    /\ [](last.op = "loadPostInteractions" =>
            LET post == Obj(heap, last.ref)
                likes == getLikes(localStorage, last.before.id)
                dislikes == getDislikes(localStorage, last.before.id)
            IN  /\ post.likes = likes
                /\ post.dislikes = dislikes
                /\ last.ret.likes = likes
                /\ last.ret.dislikes = dislikes
                /\ last.ret.totalEngagement = JsAdd(likes, dislikes))
    /\ [][last'.op = "loadPostInteractions" => localStorage' = localStorage]_vars

\* a post that the feed reported with 5 likes, and whose likes key is absent
\* from the store, has been loaded: its likes are 0
C12_Witness ==
    /\ last.op = "loadPostInteractions"
    /\ last.before.likes = Num(5)
    /\ localStorage[LikesKey(last.before.id)] = None
    /\ Obj(heap, last.ref).likes = Num(0)
    /\ last.ret.totalEngagement = JsAdd(Num(0), last.ret.dislikes)

(***************************************************************************)
(* LocalStorageService over a storage that holds anything and can raise    *)
(***************************************************************************)
\* 'mockstagram_', the prefix clearAll tests
NamespacePrefix ==
    <<"m", "o", "c", "k", "s", "t", "a", "g", "r", "a", "m", "_">>
\* keys of other scripts of the same origin: one that shares no character
\* with the prefix and one that is the prefix without its underscore
ForeignKey == <<"t", "h", "e", "m", "e">>
NearKey == <<"m", "o", "c", "k", "s", "t", "a", "g", "r", "a", "m">>
StoreKeys == StorageKeys \cup {THEME_KEY, USER_PREFERENCES_KEY, ForeignKey, NearKey}

StartsWithFirstCharacters(str, prefix) ==
    /\ Len(str) >= Len(prefix) - 1
    /\ SubSeq(str, 1, Len(prefix) - 1) = SubSeq(prefix, 1, Len(prefix) - 1)
\* String.prototype.startsWith
StartsWith(str, prefix) ==
    Len(str) >= Len(prefix) /\ SubSeq(str, 1, Len(prefix)) = prefix

\* what a counter key can hold: nothing, the empty string, a number, a word,
\* a negative number
CounterTexts ==
    {None, Some(<<>>), Some(<<"1", "2">>), Some(<<"a", "b", "c">>), Some(<<"-", "3">>)}

\* the preferences object and its JSON text, token by token
DefaultPreferences ==
    [apiMode |-> "custom", autoLoadImages |-> "true", enableNotifications |-> "false"]
RandomPreferences ==
    [apiMode |-> "random", autoLoadImages |-> "false", enableNotifications |-> "false"]
JsonStringify(prefs) ==
    <<"{", "apiMode", ":", prefs.apiMode, ",",
      "autoLoadImages", ":", prefs.autoLoadImages, ",",
      "enableNotifications", ":", prefs.enableNotifications, "}">>
\* JSON.parse: the object, or None when it raises SyntaxError
JsonParse(text) ==
    IF /\ Len(text) = 13
       /\ <<text[1], text[2], text[3], text[5], text[6], text[7], text[9],
            text[10], text[11], text[13]>> =
          <<"{", "apiMode", ":", ",", "autoLoadImages", ":", ",",
            "enableNotifications", ":", "}">>
    THEN Some([apiMode |-> text[4], autoLoadImages |-> text[8],
               enableNotifications |-> text[12]])
    ELSE None
TruncatedJson == <<"{", "apiMode", ":">>
DarkTheme == <<"d", "a", "r", "k">>
LightTheme == <<"l", "i", "g", "h", "t">>

\* getItem, Object.keys and removeItem return, or raise (storage denied)
StorageAccess == {"ok", "raises"}

InitStore ==
    /\ \E l \in CounterTexts, d \in {None, Some(<<"-", "3">>), Some(<<"a", "b", "c">>)},
          t \in {None, Some(DarkTheme)},
          u \in {None, Some(JsonStringify(RandomPreferences)), Some(TruncatedJson)} :
          localStorage =
              [k \in StoreKeys |->
                  IF k = LikesKey("1") THEN l
                  ELSE IF k = DislikesKey("1") THEN d
                  ELSE IF k = THEME_KEY THEN t
                  ELSE IF k = USER_PREFERENCES_KEY THEN u
                  ELSE IF k \in {ForeignKey, NearKey} THEN Some(<<"x">>)
                  ELSE None]
    /\ heap = <<Some(InitialEntity("SocialPost", "1"))>>
    /\ last = [op |-> "none"]
    /\ tracked = {}
    /\ ops = 0
    /\ RepoIdle
    /\ ShareIdle
    /\ NoGallery

\* what every storage call leaves alone and records
StoreCall(op, arg, access, ret, raised) ==
    /\ ops < MaxStoreOps
    /\ ops' = ops + 1
    /\ last' = [op |-> op, arg |-> arg, access |-> access, ret |-> ret,
                raised |-> raised, storeBefore |-> localStorage]
    /\ UNCHANGED <<heap, tracked, notInteractVars>>

GetLikes(postId, access) ==
    /\ StoreCall("getLikes", postId, access,
                 IF access = "raises" THEN Num(0) ELSE getLikes(localStorage, postId),
                 FALSE)
    /\ UNCHANGED localStorage

GetDislikes(postId, access) ==
    /\ StoreCall("getDislikes", postId, access,
                 IF access = "raises" THEN Num(0) ELSE getDislikes(localStorage, postId),
                 FALSE)
    /\ UNCHANGED localStorage

SetLikes(postId, count, setItem) ==
    LET r == setLikes(localStorage, postId, count, setItem)
    IN  /\ StoreCall("setLikes", <<postId, count>>, IF setItem = "stored" THEN "ok" ELSE "raises",
                     r.ok, FALSE)
        /\ localStorage' = r.store

SetDislikes(postId, count, setItem) ==
    LET r == setDislikes(localStorage, postId, count, setItem)
    IN  /\ StoreCall("setDislikes", <<postId, count>>, IF setItem = "stored" THEN "ok" ELSE "raises",
                     r.ok, FALSE)
        /\ localStorage' = r.store

\* localStorage.getItem(this.THEME_KEY) || 'light'
GetTheme(access) ==
    /\ StoreCall("getTheme", "", access,
                 IF access = "raises" \/ localStorage[THEME_KEY] \in {None, Some(<<>>)}
                 THEN LightTheme ELSE Get(localStorage[THEME_KEY]),
                 FALSE)
    /\ UNCHANGED localStorage

SetTheme(theme, setItem) ==
    /\ StoreCall("setTheme", "", IF setItem = "stored" THEN "ok" ELSE "raises",
                 setItem = "stored", FALSE)
    /\ localStorage' = IF setItem = "stored"
                       THEN [localStorage EXCEPT ![THEME_KEY] = Some(theme)]
                       ELSE localStorage

\* prefs ? JSON.parse(prefs) : defaults; a SyntaxError is caught
GetUserPreferences(access) ==
    LET prefs == localStorage[USER_PREFERENCES_KEY]
    IN  /\ StoreCall("getUserPreferences", "", access,
                     IF access = "raises" \/ prefs \in {None, Some(<<>>)}
                     THEN DefaultPreferences
                     ELSE IF JsonParse(Get(prefs)) = None THEN DefaultPreferences
                     ELSE Get(JsonParse(Get(prefs))),
                     FALSE)
        /\ UNCHANGED localStorage

SetUserPreferences(preferences, setItem) ==
    /\ StoreCall("setUserPreferences", "", IF setItem = "stored" THEN "ok" ELSE "raises",
                 setItem = "stored", FALSE)
    /\ localStorage' =
          IF setItem = "stored"
          THEN [localStorage EXCEPT ![USER_PREFERENCES_KEY] =
                                        Some(JsonStringify(preferences))]
          ELSE localStorage

\* the keys Object.keys(localStorage) lists that pass the prefix test
NamespaceKeys(store) ==
    {k \in DOMAIN store : store[k] # None /\ StartsWith(k, NamespacePrefix)}
Remove(store, keys) == [k \in DOMAIN store |-> IF k \in keys THEN None ELSE store[k]]

\* clearAll: Object.keys raises, or a removeItem raises after some of the
\* keys were removed, or none raises
ClearAllOutcomes == {"cleared", "keysRaises", "removeItemRaises"}
ClearAll(outcome) ==
    /\ StoreCall("clearAll", "", IF outcome = "cleared" THEN "ok" ELSE "raises",
                 outcome = "cleared", FALSE)
    /\ CASE outcome = "cleared" ->
              localStorage' = Remove(localStorage, NamespaceKeys(localStorage))
         [] outcome = "keysRaises" -> UNCHANGED localStorage
         [] outcome = "removeItemRaises" ->
              \E removed \in SUBSET NamespaceKeys(localStorage) :
                  /\ removed # NamespaceKeys(localStorage)
                  /\ localStorage' = Remove(localStorage, removed)

WrittenCounts == {Num(0), Num(7)}
NextStore ==
    \/ \E postId \in PostIds, access \in StorageAccess : GetLikes(postId, access)
    \/ \E postId \in PostIds, access \in StorageAccess : GetDislikes(postId, access)
    \/ \E count \in WrittenCounts, setItem \in SetItemOutcomes :
          SetLikes("1", count, setItem)
    \/ \E count \in WrittenCounts, setItem \in SetItemOutcomes :
          SetDislikes("1", count, setItem)
    \/ \E access \in StorageAccess : GetTheme(access)
    \/ \E setItem \in SetItemOutcomes : SetTheme(DarkTheme, setItem)
    \/ \E access \in StorageAccess : GetUserPreferences(access)
    \/ \E setItem \in SetItemOutcomes : SetUserPreferences(RandomPreferences, setItem)
    \/ \E outcome \in ClearAllOutcomes : ClearAll(outcome)

SpecStore == InitStore /\ [][NextStore]_vars

(***************************************************************************)
(* Properties of LocalStorageService (specification SpecStore).            *)
(***************************************************************************)
CounterReads == {"getLikes", "getDislikes"}
CounterWrites == {"setLikes", "setDislikes"}
BooleanCalls == CounterWrites \cup {"setTheme", "setUserPreferences", "clearAll"}

\* C13 (SpecStore): no operation of LocalStorageService raises when the
\* storage raises: getLikes/getDislikes return 0, setLikes, setDislikes,
\* setTheme, setUserPreferences and clearAll return false, and
\* getUserPreferences returns the default preferences; a counter write that
\* returns false has changed no stored key.
C13_StorageFaultsAreCaught ==
    last.op # "none" =>
        /\ ~last.raised
        /\ last.access = "raises" =>
              /\ last.op \in CounterReads => last.ret = Num(0)
              /\ last.op \in BooleanCalls => last.ret = FALSE
              /\ last.op = "getUserPreferences" =>
                    last.ret = [apiMode |-> "custom", autoLoadImages |-> "true",
                                enableNotifications |-> "false"]
        /\ (last.op \in CounterWrites /\ last.ret = FALSE) =>
              localStorage = last.storeBefore

\* a setLikes on a key that held "12" met a raising setItem
C13_Witness ==
    /\ last.op = "setLikes" /\ last.access = "raises" /\ last.ret = FALSE
    /\ localStorage[LikesKey("1")] = Some(<<"1", "2">>)

\* C14 (SpecStore): whatever the storage holds under the key (nothing, the
\* empty string, a number, a word, a negative number), getLikes and
\* getDislikes return an integer, and 0 when the key is absent.
C14_CounterReadIsInteger ==
    (last.op \in CounterReads) =>
        LET key == IF last.op = "getLikes" THEN LikesKey(last.arg)
                   ELSE DislikesKey(last.arg)
        IN  /\ ~IsNaN(last.ret)
            /\ last.ret.n \in Int
            /\ last.storeBefore[key] = None => last.ret = Num(0)

\* C15 (SpecStore): after clearAll returns true no key that starts with
\* 'mockstagram_' remains, getLikes and getDislikes return 0 for every post
\* id, and every key without the prefix keeps its value.
C15_ClearAllRemovesNamespace ==
    (last.op = "clearAll" /\ last.ret = TRUE) =>
        /\ \A k \in StorageKeys \cup {THEME_KEY, USER_PREFERENCES_KEY} :
              localStorage[k] = None
        /\ \A postId \in PostIds :
              /\ getLikes(localStorage, postId) = Num(0)
              /\ getDislikes(localStorage, postId) = Num(0)
        /\ \A k \in {ForeignKey, NearKey} : localStorage[k] = last.storeBefore[k]

\* likes of post 1 were "12" and preferences were stored; clearAll removed
\* both and kept the key 'mockstagram'
C15_Witness ==
    /\ last.op = "clearAll" /\ last.ret = TRUE
    /\ last.storeBefore[LikesKey("1")] = Some(<<"1", "2">>)
    /\ last.storeBefore[USER_PREFERENCES_KEY] # None
    /\ localStorage[LikesKey("1")] = None
    /\ localStorage[NearKey] = Some(<<"x">>)

(***************************************************************************)
(* SocialInteractionService.getEngagementStats                             *)
(***************************************************************************)
\* a > b on JavaScript numbers: false when either is NaN
JsGt(a, b) == ~IsNaN(a) /\ ~IsNaN(b) /\ a.n > b.n
\* total / length, the total a non-negative integer or NaN
JsDivide(total, length) == IF IsNaN(total) THEN NaN ELSE JsDiv(total.n, length)

EmptyStats ==
    [totalLikes |-> Num(0), totalDislikes |-> Num(0), totalEngagement |-> Num(0),
     averageEngagement |-> DoubleZero, mostLikedPost |-> None,
     mostEngagedPost |-> None]

StatsStepAddsLikesOnly(h, ref, acc) ==
    LET post == Obj(h, ref)
        engagement == getTotalEngagement(post)
        liked == JsGt(post.likes, acc.maxLikes)
        engaged == JsGt(engagement, acc.maxEngagement)
    IN  [totalLikes |-> JsAdd(acc.totalLikes, post.likes),
         totalDislikes |-> JsAdd(acc.totalDislikes, post.dislikes),
         totalEngagement |-> JsAdd(acc.totalEngagement, post.likes),
         maxLikes |-> IF liked THEN post.likes ELSE acc.maxLikes,
         mostLikedPost |-> IF liked THEN Some(ref) ELSE acc.mostLikedPost,
         maxEngagement |-> IF engaged THEN engagement ELSE acc.maxEngagement,
         mostEngagedPost |-> IF engaged THEN Some(ref) ELSE acc.mostEngagedPost]

\* one turn of posts.forEach, with strict > against the first maximum
StatsStep(h, ref, acc) ==
    LET post == Obj(h, ref)
        engagement == getTotalEngagement(post)
        liked == JsGt(post.likes, acc.maxLikes)
        engaged == JsGt(engagement, acc.maxEngagement)
    IN  [totalLikes |-> JsAdd(acc.totalLikes, post.likes),
         totalDislikes |-> JsAdd(acc.totalDislikes, post.dislikes),
         totalEngagement |-> JsAdd(acc.totalEngagement, engagement),
         maxLikes |-> IF liked THEN post.likes ELSE acc.maxLikes,
         mostLikedPost |-> IF liked THEN Some(ref) ELSE acc.mostLikedPost,
         maxEngagement |-> IF engaged THEN engagement ELSE acc.maxEngagement,
         mostEngagedPost |-> IF engaged THEN Some(ref) ELSE acc.mostEngagedPost]

RECURSIVE StatsLoop(_, _, _, _)
StatsLoop(h, posts, i, acc) ==
    IF i > Len(posts) THEN acc
    ELSE StatsLoop(h, posts, i + 1, StatsStep(h, posts[i], acc))

\* posts: None for a missing list, Some(array of references) otherwise
getEngagementStats(h, posts) ==
    IF posts = None \/ Len(Get(posts)) = 0 THEN EmptyStats
    ELSE LET acc == StatsLoop(h, Get(posts), 1,
                              [totalLikes |-> Num(0), totalDislikes |-> Num(0),
                               totalEngagement |-> Num(0),
                               maxLikes |-> Num(0), mostLikedPost |-> None,
                               maxEngagement |-> Num(0), mostEngagedPost |-> None])
         IN  [totalLikes |-> acc.totalLikes, totalDislikes |-> acc.totalDislikes,
              totalEngagement |-> acc.totalEngagement,
              averageEngagement |-> JsDivide(acc.totalEngagement, Len(Get(posts))),
              mostLikedPost |-> acc.mostLikedPost,
              mostEngagedPost |-> acc.mostEngagedPost]

\* the posts of the lists: likes and dislikes of each
StatsCounts == {<<0, 0>>, <<4, 0>>, <<4, 1>>}
StatsPost(i, counts) ==
    SocialPost(Digits[i + 1], "a.png", "a_t.png", "T", "2024-01-01", FeedAuthor,
               Num(counts[1]), Num(counts[2]), 1)

InitStats ==
    /\ \E n \in 0..MaxStatsPosts : \E counts \in [1..n -> StatsCounts] :
          heap = [i \in 1..n |-> Some(StatsPost(i, counts[i]))]
    /\ localStorage = [k \in StorageKeys |-> None]
    /\ last = [op |-> "none"]
    /\ tracked = {}
    /\ ops = 0
    /\ RepoIdle
    /\ ShareIdle
    /\ NoGallery

GetEngagementStats(posts) ==
    /\ ops = 0
    /\ ops' = 1
    /\ last' = [op |-> "getEngagementStats", posts |-> posts,
                ret |-> getEngagementStats(heap, posts)]
    /\ UNCHANGED <<heap, localStorage, tracked, notInteractVars>>

NextStats ==
    \/ GetEngagementStats(None)
    \/ GetEngagementStats(Some([i \in 1..Len(heap) |-> i]))

SpecStats == InitStats /\ [][NextStats]_vars

(***************************************************************************)
(* Properties of getEngagementStats (specification SpecStats).             *)
(***************************************************************************)
StatsReturned == last.op = "getEngagementStats"
StatsList == IF last.posts = None THEN <<>> ELSE Get(last.posts)
Likes(ref) == Obj(heap, ref).likes.n
Dislikes(ref) == Obj(heap, ref).dislikes.n
RECURSIVE SumOver(_, _, _)
SumOver(F(_), list, i) ==
    IF i > Len(list) THEN 0 ELSE F(list[i]) + SumOver(F, list, i + 1)
Engagement(ref) == Likes(ref) + Dislikes(ref)
\* the lowest index of the list at which F is largest
FirstMaximum(F(_), list) ==
    list[CHOOSE i \in 1..Len(list) :
            /\ \A j \in 1..Len(list) : F(list[j]) <= F(list[i])
            /\ \A j \in 1..(i - 1) : F(list[j]) < F(list[i])]

\* C16 (SpecStats): for an empty or missing list getEngagementStats
\* returns aggregates that are all 0 and null for mostLikedPost and
\* mostEngagedPost; for a non-empty list mostLikedPost is the post of
\* lowest index whose likes are the largest of the list, and
\* mostEngagedPost the post of lowest index whose likes + dislikes are the
\* largest.
C16_FirstMaximumWins ==
    StatsReturned =>
        IF StatsList = <<>>
        THEN /\ last.ret.totalLikes = Num(0) /\ last.ret.totalDislikes = Num(0)
             /\ last.ret.totalEngagement = Num(0)
             /\ last.ret.averageEngagement = DoubleZero
             /\ last.ret.mostLikedPost = None /\ last.ret.mostEngagedPost = None
        ELSE /\ last.ret.mostLikedPost = Some(FirstMaximum(Likes, StatsList))
             /\ last.ret.mostEngagedPost = Some(FirstMaximum(Engagement, StatsList))

\* x <= y on doubles that are not negative
BitsLeq(a, b) ==
    \/ a = b
    \/ \E i \in 1..Len(a) :
          a[i] < b[i] /\ \A j \in 1..(i - 1) : a[j] = b[j]
DoubleLeq(x, y) ==
    \/ x = DoubleZero
    \/ /\ y # DoubleZero
       /\ (x.e < y.e \/ (x.e = y.e /\ BitsLeq(x.m, y.m)))

TotalsAreSums ==
    /\ last.ret.totalLikes = Num(SumOver(Likes, StatsList, 1))
    /\ last.ret.totalDislikes = Num(SumOver(Dislikes, StatsList, 1))
    /\ last.ret.totalEngagement =
          Num(SumOver(Likes, StatsList, 1) + SumOver(Dislikes, StatsList, 1))

\* C17 as stated (SpecStats): totalLikes, totalDislikes and totalEngagement
\* are the sums over the list, and for a non-empty list averageEngagement
\* times the number of posts equals totalEngagement.
C17_AverageTimesCountIsTotal ==
    StatsReturned =>
        /\ TotalsAreSums
        /\ StatsList # <<>> =>
              JsMul(last.ret.averageEngagement, Len(StatsList)) =
                  ToDouble(last.ret.totalEngagement.n)

\* C17 amended (SpecStats): the three totals are the sums over the list;
\* for a non-empty list of n posts averageEngagement lies between the
\* integers floor(totalEngagement / n) and floor(totalEngagement / n) + 1,
\* and when n divides totalEngagement it is the exact quotient and
\* averageEngagement * n = totalEngagement; no step changes a post.
C17_AverageIsQuotient ==
    /\ [](StatsReturned =>
            /\ TotalsAreSums
            /\ StatsList # <<>> =>
                  LET n == Len(StatsList)
                      total == last.ret.totalEngagement.n
                      avg == last.ret.averageEngagement
                  IN  /\ DoubleLeq(ToDouble(total \div n), avg)
                      /\ DoubleLeq(avg, ToDouble(total \div n + 1))
                      /\ total % n = 0 =>
                            /\ avg = ToDouble(total \div n)
                            /\ JsMul(avg, n) = ToDouble(total))
    /\ [][heap' = heap]_vars

\* seven posts with 29 interactions in all: the average is not a whole
\* number
C17_Witness ==
    /\ StatsReturned /\ Len(StatsList) = 7
    /\ last.ret.totalEngagement = Num(29)
    /\ last.ret.totalDislikes = Num(5)
    /\ last.ret.averageEngagement # ToDouble(4)
    /\ DoubleLeq(ToDouble(4), last.ret.averageEngagement)

(***************************************************************************)
(* The repository over feed payloads whose counts are any integers         *)
(***************************************************************************)
\* a record of the feed whose likes are below 0
FeedRecordNegative ==
    [id |-> "2", source |-> "b.png", thumbnail |-> "b_t.png", title |-> "U",
     date |-> "2024-02-02", author |-> BobAuthor, likes |-> -1, dislikes |-> 2]
AnyFeedData ==
    {[photos |-> [isArray |-> TRUE, items |-> ps]] :
        ps \in SeqsUpTo(FeedRecords \cup {FeedRecordNegative}, MaxPhotos)}

NextFeedAny ==
    \/ \E d \in TickSteps : Tick(d)
    \/ \E c \in CallIds : NoCallInFlight /\ FetchAllStart(c)
    \/ \E c \in CallIds, outcome \in FetchOutcomes : FetchAllResponse(c, outcome)
    \/ \E c \in CallIds, d \in AnyFeedData : FetchAllJson(c, Some(d))
    \/ NoCallInFlight /\ ClearCache

SpecFeedAny == InitRepo /\ [][NextFeedAny]_vars

\* C18 (SpecFeedAny): in every reachable state every post entity has
\* likes >= 0 and dislikes >= 0, whatever feed payload it was constructed
\* from and whatever calls of loadPostInteractions, likePost and dislikePost
\* followed.
C18_CountsNeverNegative ==
    \A ref \in DOMAIN heap :
        IsSome(heap[ref]) =>
            /\ ~IsNaN(Obj(heap, ref).likes) /\ Obj(heap, ref).likes.n >= 0
            /\ ~IsNaN(Obj(heap, ref).dislikes) /\ Obj(heap, ref).dislikes.n >= 0

(***************************************************************************)
(* Frame of the interaction service (specification SpecInteract).          *)
(***************************************************************************)
ConstructionFields ==
    {"id", "source", "thumbnail", "title", "date", "author", "createdAt"}
SameFields(a, b, fields) == \A f \in fields : a[f] = b[f]
\* the step is a call of op
CallOf(op) == ops' = ops + 1 /\ last'.op = op

\* C19 (SpecInteract): likePost changes no field of the post but likes,
\* dislikePost none but dislikes, loadPostInteractions none but likes and
\* dislikes, and no call changes another object: id, source, thumbnail,
\* title, date, author and createdAt stay as constructed.
C19_OnlyCountersChange ==
    [][\A ref \in EntityRefs :
          LET before == Obj(heap, ref)
              after == Obj(heap', ref)
          IN  /\ SameFields(before, after, ConstructionFields)
              /\ CallOf("likePost") => before.dislikes = after.dislikes
              /\ CallOf("dislikePost") => before.likes = after.likes
              /\ ref # last'.ref => before = after]_vars

\* post 1 was liked with a successful write: 6 likes, everything else as
\* constructed
C19_Witness ==
    /\ last.op = "likePost" /\ last.ret.success
    /\ Obj(heap, last.ref).likes = Num(6)
    /\ SameFields(Obj(heap, last.ref), last.before,
                  ConstructionFields \cup {"dislikes"})

(***************************************************************************)
(* SocialPost.getTimeSincePosted                                           *)
(***************************************************************************)
\* An instant is a day number and the milliseconds since that day began
\* (UTC); the date of a post is an ISO date, <<"isoDate", day>>.
Instant(day, ms) == [day |-> day, ms |-> ms]
\* new Date(this.date): midnight UTC of the ISO date
DateOf(date) == Instant(date[2], 0)
Earlier(a, b) == a.day < b.day \/ (a.day = b.day /\ a.ms < b.ms)
\* Math.abs(now - postDate), as whole days and milliseconds
AbsDiff(a, b) ==
    LET hi == IF Earlier(a, b) THEN b ELSE a
        lo == IF Earlier(a, b) THEN a ELSE b
    IN  IF hi.ms >= lo.ms THEN Instant(hi.day - lo.day, hi.ms - lo.ms)
        ELSE Instant(hi.day - lo.day - 1, hi.ms + MsPerDay - lo.ms)
\* Math.ceil(diffTime / (1000 * 60 * 60 * 24))
CeilDays(diffTime) == diffTime.day + (IF diffTime.ms > 0 THEN 1 ELSE 0)

getTimeSincePostedWeekAtEight(post, t) ==
    LET diffDays == CeilDays(AbsDiff(t, DateOf(post.date)))
    IN  IF diffDays = 1 THEN <<"1", " day ago">>
        ELSE IF diffDays <= 7 THEN NatToString(diffDays) \o <<" days ago">>
        ELSE IF diffDays < 30 THEN NatToString(diffDays \div 7) \o <<" weeks ago">>
        ELSE NatToString(diffDays \div 30) \o <<" months ago">>

getTimeSincePosted(post, t) ==
    LET diffDays == CeilDays(AbsDiff(t, DateOf(post.date)))
    IN  IF diffDays = 1 THEN <<"1", " day ago">>
        ELSE IF diffDays < 7 THEN NatToString(diffDays) \o <<" days ago">>
        ELSE IF diffDays < 30 THEN NatToString(diffDays \div 7) \o <<" weeks ago">>
        ELSE NatToString(diffDays \div 30) \o <<" months ago">>

\* a post dated on any day from day 0 to day MaxAgeDays
InitTime ==
    /\ \E day \in 0..MaxAgeDays :
          heap = <<Some([InitialEntity("SocialPost", "1")
                            EXCEPT !.date = <<"isoDate", day>>])>>
    /\ localStorage = [k \in StorageKeys |-> None]
    /\ last = [op |-> "none"]
    /\ tracked = {}
    /\ ops = 0
    /\ RepoIdle
    /\ ShareIdle
    /\ NoGallery

\* the times of day at which the method is called
CallTimes == {0, 1, MsPerDay - 1}
GetTimeSincePosted(ref, t) ==
    /\ ops = 0
    /\ ops' = 1
    /\ last' = [op |-> "getTimeSincePosted", ref |-> ref, now |-> t,
                ret |-> getTimeSincePosted(Obj(heap, ref), t)]
    /\ UNCHANGED <<heap, localStorage, tracked, notInteractVars>>

NextTime ==
    \E day \in {0, MaxAgeDays}, ms \in CallTimes : GetTimeSincePosted(1, Instant(day, ms))

SpecTime == InitTime /\ [][NextTime]_vars

\* the whole number of days from the post's date to the call, when it is one
WholeDaysAgo ==
    /\ last.op = "getTimeSincePosted"
    /\ last.now.ms = 0
    /\ last.now.day >= Obj(heap, last.ref).date[2]
DaysAgo == last.now.day - Obj(heap, last.ref).date[2]

\* C20 (SpecTime): for a post dated a whole number d of days before now,
\* getTimeSincePosted returns '1 day ago' for d = 1, 'd days ago' for
\* 1 < d < 7, 'floor(d/7) weeks ago' for 7 <= d < 30 and
\* 'floor(d/30) months ago' for d >= 30; 6 days give '6 days ago', 7 days
\* '1 weeks ago' and 30 days '1 months ago'.
C20_TimeSincePosted ==
    WholeDaysAgo =>
        /\ DaysAgo = 1 => last.ret = <<"1", " day ago">>
        /\ (1 < DaysAgo /\ DaysAgo < 7) =>
              last.ret = NatToString(DaysAgo) \o <<" days ago">>
        /\ (7 <= DaysAgo /\ DaysAgo < 30) =>
              last.ret = NatToString(DaysAgo \div 7) \o <<" weeks ago">>
        /\ DaysAgo >= 30 =>
              last.ret = NatToString(DaysAgo \div 30) \o <<" months ago">>
        /\ DaysAgo = 6 => last.ret = <<"6", " days ago">>
        /\ DaysAgo = 7 => last.ret = <<"1", " weeks ago">>
        /\ DaysAgo = 30 => last.ret = <<"1", " months ago">>

\* a post dated exactly 30 days before the call
C20_Witness ==
    /\ WholeDaysAgo /\ DaysAgo = 30
    /\ last.ret = <<"1", " months ago">>

(***************************************************************************)
(* Two entities of one post, both loaded from the store                    *)
(***************************************************************************)
\* the two holders of post "1": two tabs, or a cached and a re-fetched copy
TabRefs == {1, 2}
\* an entity on which loadPostInteractions has run
Loaded(store, id) ==
    [InitialEntity("SocialPost", id) EXCEPT !.likes = getLikes(store, id),
                                           !.dislikes = getDislikes(store, id)]
InitTabs ==
    /\ localStorage \in InitialStores
    /\ heap = [ref \in TabRefs |-> Some(Loaded(localStorage, "1"))]
    /\ last = [op |-> "none"]
    /\ tracked = {}
    /\ ops = 0
    /\ RepoIdle
    /\ ShareIdle
    /\ NoGallery

NextTabs ==
    \/ \E ref \in TabRefs, write \in WriteOutcomes : LikePost(ref, write)
    \/ \E ref \in TabRefs, write \in WriteOutcomes : DislikePost(ref, write)
    \/ \E ref \in TabRefs : LoadPostInteractions(ref)

SpecTabs == InitTabs /\ [][NextTabs]_vars

\* C21 (SpecTabs): the persisted counter is last-write-wins.  When two
\* entities of one post id were loaded from the persisted count n and one
\* of them has made a successful likePost (it holds n+1 and so does the
\* store), a successful likePost on the other, which still holds n,
\* reports success with newCount = n+1 and leaves the persisted counter at
\* n+1, not n+2.
C21_LastWriteWins ==
    [][\A ref \in TabRefs : \A other \in TabRefs \ {ref} :
          LET n == Obj(heap, ref).likes
              id == Obj(heap, ref).id
          IN  (/\ CallOf("likePost") /\ last'.ref = ref /\ last'.write = "stored"
               /\ Obj(heap, other).id = id
               /\ Obj(heap, other).likes = JsInc(n)
               /\ getLikes(localStorage, id) = JsInc(n))
              => /\ last'.ret.success
                 /\ last'.ret.newCount = JsInc(n)
                 /\ Obj(heap', ref).likes = JsInc(n)
                 /\ getLikes(localStorage', id) = JsInc(n)]_vars

\* both entities were loaded at 9; each has made one successful like; both
\* hold 10 and the store holds 10
C21_Witness ==
    /\ ops = 2 /\ last.op = "likePost" /\ last.ret.success
    /\ last.ret.newCount = Num(10)
    /\ \A ref \in TabRefs : Obj(heap, ref).likes = Num(10)
    /\ getLikes(localStorage, "1") = Num(10)

(***************************************************************************)
(* Overlapping fetchAll calls (specification SpecRepo).                    *)
(***************************************************************************)
\* the step begins a fetchAll; the step ends one with a refreshed cache
FetchAllBegins == lastRepo' # lastRepo /\ lastRepo'.kind \in {"fetchAllHit", "fetchAllMiss"}
FetchAllRefreshes == lastRepo' # lastRepo /\ lastRepo'.kind = "fetchAllReturned"
NoFreshRecord ==
    cache = None \/ cacheTimestamp = None \/ now - Get(cacheTimestamp) >= FiveMinutes

\* C22 (SpecRepo): fetchAll calls are not coalesced.  A fetchAll that
\* begins while the cache is empty or expired makes its own remote
\* request, also when another fetchAll is waiting for its response, and
\* every fetchAll that completes a refresh puts its own sequence and the
\* time of its completion in the cache, so the cache holds those of the
\* call that completed last.
C22_FetchAllNotCoalesced ==
    /\ [][(FetchAllBegins /\ NoFreshRecord) =>
             /\ lastRepo'.kind = "fetchAllMiss"
             /\ feedRequests' = feedRequests + 1]_vars
    /\ [][FetchAllRefreshes =>
             /\ cache' = Some(lastRepo'.result)
             /\ cacheTimestamp' = Some(now)]_vars
    /\ [](lastRepo.kind = "fetchAllReturned" =>
            /\ cache = Some(lastRepo.result)
            /\ cacheTimestamp = Some(lastRepo.at))

\* Two requests were made and the clock never advanced, so the second call
\* began before the first stored its posts; both have completed, and the
\* cache holds the post of the second to complete (reference 2: the first
\* one's post, reference 1, was still cached when it was constructed).
C22_Witness ==
    /\ feedRequests = 2 /\ ticks = 0 /\ NoCallInFlight
    /\ lastRepo.kind = "fetchAllReturned"
    /\ lastRepo.result = <<2>>
    /\ cache = Some(<<2>>)
    /\ cacheTimestamp = Some(now)

(***************************************************************************)
(* findById, findByAuthor, findByChannel.  Each awaits fetchAll and        *)
(* filters what it returned; the filter runs when fetchAll has returned,   *)
(* in the step that ends the call.  `last` is the outcome of the latest    *)
(* call that ended.                                                        *)
(***************************************************************************)
\* the characters of the author names and channels of the feed
Characters(str) ==
    CASE str = "Ann" -> <<"A", "n", "n">>
      [] str = "Bob" -> <<"B", "o", "b">>
      [] str = "Foxes" -> <<"F", "o", "x", "e", "s">>
      [] str = "Dogs" -> <<"D", "o", "g", "s">>

\* String.prototype.toLowerCase, on the letters that occur
LowerOf(ch) ==
    CASE ch = "A" -> "a" [] ch = "B" -> "b" [] ch = "D" -> "d"
      [] ch = "F" -> "f" [] ch = "N" -> "n" [] ch = "O" -> "o"
      [] OTHER -> ch
toLowerCase(chars) == [i \in 1..Len(chars) |-> LowerOf(chars[i])]

\* String.prototype.includes
includes(chars, part) ==
    \E i \in 0..(Len(chars) - Len(part)) : SubSeq(chars, i + 1, i + Len(part)) = part

\* Array.prototype.filter: the elements whose test passed, in order
RECURSIVE filter(_, _)
filter(posts, pass) ==
    IF posts = <<>> THEN <<>>
    ELSE (IF Head(pass) THEN <<Head(posts)>> ELSE <<>>)
         \o filter(Tail(posts), Tail(pass))

findByIdLooksAtFirstPost(h, posts, id) ==
    IF posts # <<>> /\ Obj(h, posts[1]).id = id THEN Some(posts[1]) ELSE None

\* posts.find(post => post.id === id): the first match, or undefined
findById(h, posts, id) ==
    IF \E i \in 1..Len(posts) : Obj(h, posts[i]).id = id
    THEN Some(posts[CHOOSE i \in 1..Len(posts) :
                      /\ Obj(h, posts[i]).id = id
                      /\ \A j \in 1..(i - 1) : Obj(h, posts[j]).id # id])
    ELSE None

findByAuthor(h, posts, authorName) ==
    LET Pass(post) == includes(toLowerCase(Characters(post.author.name)),
                               toLowerCase(authorName))
    IN  filter(posts, [i \in 1..Len(posts) |-> Pass(Obj(h, posts[i]))])

findByChannel(h, posts, channelName) ==
    LET Pass(post) == includes(toLowerCase(Characters(post.author.channel)),
                               toLowerCase(channelName))
    IN  filter(posts, [i \in 1..Len(posts) |-> Pass(Obj(h, posts[i]))])

FindQueries ==
    {[op |-> "findById", arg |-> id] : id \in {"2", "3"}}
    \cup {[op |-> "findByAuthor", arg |-> a] :
            a \in {<<"a", "N">>, <<"x">>}}
    \cup {[op |-> "findByChannel", arg |-> a] : a \in {<<"O">>}}

\* what the method makes of the posts fetchAll returned
FindResult(h, posts, q) ==
    CASE q.op = "findById" -> findById(h, posts, q.arg)
      [] q.op = "findByAuthor" -> findByAuthor(h, posts, q.arg)
      [] q.op = "findByChannel" -> findByChannel(h, posts, q.arg)

FindReturned(q, h, posts) ==
    [op |-> q.op, arg |-> q.arg, raised |-> FALSE, ret |-> FindResult(h, posts, q)]
FindRaised(q, error) ==
    [op |-> q.op, arg |-> q.arg, raised |-> TRUE, error |-> error]

\* the method up to the first await of its fetchAll
FindStart(c, q) ==
    /\ ~InFlight(c)
    /\ IF isCacheValid(cache, cacheTimestamp, now)
       THEN /\ lastRepo' = [kind |-> "fetchAllHit", after |-> Before(lastRepo),
                            at |-> now, cache |-> cache,
                            cacheTimestamp |-> cacheTimestamp,
                            feedRequests |-> feedRequests, result |-> Get(cache)]
            /\ last' = FindReturned(q, heap, Get(cache))
            /\ UNCHANGED <<feedRequests, calls>>
       ELSE /\ feedRequests < MaxFeedRequests
            /\ feedRequests' = feedRequests + 1
            /\ calls' = [calls EXCEPT ![c] =
                           [op |-> "find", query |-> q, pc |-> "fetch",
                            cacheBefore |-> cache, timestampBefore |-> cacheTimestamp]]
            /\ lastRepo' = [kind |-> "fetchAllMiss", after |-> Before(lastRepo),
                            at |-> now, cache |-> cache,
                            cacheTimestamp |-> cacheTimestamp,
                            feedRequests |-> feedRequests]
            /\ UNCHANGED last
    /\ UNCHANGED <<localStorage, tracked, ops, shareVars, gallery, now, ticks, cache,
                   cacheTimestamp, foxRequests, lastRandom>>
    /\ heap' = Collect(heap, Roots(cache', calls', lastRepo', lastRandom'))

\* fetchAll raises into the method, which has no catch of its own
FindRaise(c, cause) ==
    /\ FetchAllRaise(c, cause)
    /\ last' = FindRaised(calls[c].query, FetchAllError(cause))

FindResponse(c, outcome) ==
    /\ calls[c].pc = "fetch" /\ calls[c].op = "find"
    /\ UNCHANGED <<localStorage, tracked, ops, shareVars, gallery, now, ticks, feedRequests,
                   foxRequests, lastRandom>>
    /\ IF outcome = "ok"
       THEN /\ calls' = [calls EXCEPT ![c].pc = "json"]
            /\ UNCHANGED <<heap, cache, cacheTimestamp, lastRepo, last>>
       ELSE FindRaise(c, outcome)

FindJson(c, body) ==
    /\ calls[c].pc = "json" /\ calls[c].op = "find"
    /\ UNCHANGED <<localStorage, tracked, ops, shareVars, gallery, now, ticks, feedRequests,
                   foxRequests, lastRandom>>
    /\ IF body = None
       THEN FindRaise(c, "unparsable")
       ELSE IF ~HasPhotosArray(Get(body))
       THEN FindRaise(c, "Invalid data format: photos array not found")
       ELSE IF \E i \in 1..Len(Get(body).photos.items) :
                   ~CanConstruct(Get(body).photos.items[i])
       THEN FindRaise(c, "TypeError")
       ELSE /\ FetchAllStore(c, Get(body).photos.items)
            /\ last' = FindReturned(calls[c].query, heap', lastRepo'.result)

\* the calls of a caller who awaits each call before making the next
NextFind ==
    \/ \E d \in TickSteps : Tick(d)
    \/ \E c \in CallIds, q \in FindQueries : NoCallInFlight /\ FindStart(c, q)
    \/ \E c \in CallIds, outcome \in FetchOutcomes : FindResponse(c, outcome)
    \/ \E c \in CallIds, body \in FeedJsonOutcomes : FindJson(c, body)

SpecFind == InitRepo /\ [][NextFind]_vars

FindBegins == lastRepo' # lastRepo /\ lastRepo'.kind \in {"fetchAllHit", "fetchAllMiss"}
FindEnds ==
    /\ lastRepo' # lastRepo
    /\ lastRepo'.kind \in {"fetchAllHit", "fetchAllReturned", "fetchAllRaised"}
FirstWithId(h, posts, id) ==
    {i \in 1..Len(posts) : /\ Obj(h, posts[i]).id = id
                           /\ \A j \in 1..(i - 1) : Obj(h, posts[j]).id # id}

\* C23 (SpecFind): findById, findByAuthor and findByChannel go through
\* fetchAll.  Begun while the cache is fresh the call ends at once without
\* a remote request; begun while the cache is empty or expired it makes
\* one request, no later step of it makes another, and when that request
\* gives posts the cache is refreshed with them; when fetchAll fails the
\* call raises fetchAll's error.  A findById(id) that returns gives the
\* first post of the collection whose id is id when there is one, and
\* nothing otherwise.
C23_FindGoesThroughFetchAll ==
    /\ [][(FindBegins /\ ~NoFreshRecord) =>
             /\ lastRepo'.kind = "fetchAllHit"
             /\ feedRequests' = feedRequests
             /\ ~last'.raised
             /\ UNCHANGED <<cache, cacheTimestamp>>]_vars
    /\ [][(FindBegins /\ NoFreshRecord) =>
             /\ lastRepo'.kind = "fetchAllMiss"
             /\ feedRequests' = feedRequests + 1]_vars
    /\ [][~FindBegins => feedRequests' = feedRequests]_vars
    /\ [][(FindEnds /\ lastRepo'.kind = "fetchAllReturned") =>
             /\ ~last'.raised
             /\ cache' = Some(lastRepo'.result)
             /\ cacheTimestamp' = Some(now)]_vars
    /\ [][(FindEnds /\ lastRepo'.kind = "fetchAllRaised") =>
             /\ last'.raised
             /\ last'.error = lastRepo'.error
             /\ UNCHANGED <<cache, cacheTimestamp>>]_vars
    /\ [][(FindEnds /\ ~last'.raised /\ last'.op = "findById") =>
             LET posts == lastRepo'.result
                 first == FirstWithId(heap', posts, last'.arg)
             IN  /\ posts = Get(cache')
                 /\ first # {} => \E i \in first : last'.ret = Some(posts[i])
                 /\ first = {} => last'.ret = None]_vars

\* a findById("2") that refreshed the cache with posts 1 and 2 and returned
\* the second
C23_Witness ==
    /\ last.op = "findById" /\ last.arg = "2" /\ ~last.raised
    /\ lastRepo.kind = "fetchAllReturned"
    /\ Len(lastRepo.result) = 2
    /\ last.ret = Some(lastRepo.result[2])
    /\ Obj(heap, lastRepo.result[2]).id = "2"
    /\ cache = Some(lastRepo.result)

(***************************************************************************)
(* Every method of the repository that touches or could touch the cache:   *)
(* fetchAll, fetchRandomFoxPosts and clearCache, from the state the        *)
(* constructor leaves, made by a caller who awaits each call.              *)
(***************************************************************************)
\* bodies of the feed: unparsable, without photos, one record
RepoAllBodies ==
    {None, Some([error |-> "not found"]),
     Some([photos |-> [isArray |-> TRUE, items |-> <<FeedRecord2>>]])}
RepoAllFoxBodies == {None, Some([image |-> "fox1.jpg"])}

NextRepoAll ==
    \/ Tick(cacheExpiry)
    \/ NoCallInFlight /\ FetchAllStart(1)
    \/ \E outcome \in FetchOutcomes : FetchAllResponse(1, outcome)
    \/ \E body \in RepoAllBodies : FetchAllJson(1, body)
    \/ NoCallInFlight /\ ClearCache
    \/ \E count \in 0..MaxFoxRequests :
          NoCallInFlight /\ FetchRandomStart(1, count)
    \/ \E outcome \in FetchOutcomes : FetchRandomResponse(1, outcome)
    \/ \E body \in RepoAllFoxBodies : FetchRandomJson(1, body)

SpecRepoAll == InitRepo /\ [][NextRepoAll]_vars

\* C24 (SpecRepoAll): in every reachable state of the repository, cache is
\* null exactly when cacheTimestamp is null.
C24_CacheAndTimestampTogether == (cache = None) <=> (cacheTimestamp = None)

\* a fetchRandomFoxPosts has returned, a fetchAll had filled the cache, and
\* clearCache has cleared it
C24_Witness ==
    /\ lastRandom.kind = "returned"
    /\ lastRepo.kind = "clearCache"
    /\ IsSome(lastRepo.cache) /\ IsSome(lastRepo.cacheTimestamp)
    /\ cache = None /\ cacheTimestamp = None

(***************************************************************************)
(* The repository and the interaction service together: the caller likes,  *)
(* dislikes or loads the posts that fetchAll returned to it, and calls     *)
(* fetchAll again.  fetchAll returns this.cache itself, so the caller and  *)
(* the cache hold the same objects.                                        *)
(***************************************************************************)
\* the posts the caller was given by the latest fetchAll
Returned == ResultRefs(lastRepo)

\* bodies of the feed: unparsable, or the two records
CachedBodies ==
    {None, Some([photos |-> [isArray |-> TRUE, items |-> <<FeedRecord1, FeedRecord2>>]])}

NextCached ==
    \/ Tick(cacheExpiry)
    \/ NoCallInFlight /\ FetchAllStart(1)
    \/ \E outcome \in FetchOutcomes : FetchAllResponse(1, outcome)
    \/ \E body \in CachedBodies : FetchAllJson(1, body)
    \/ \E ref \in Returned, write \in WriteOutcomes : LikePost(ref, write)
    \/ \E ref \in Returned, write \in WriteOutcomes : DislikePost(ref, write)
    \/ \E ref \in Returned : LoadPostInteractions(ref)

SpecCached == InitRepo /\ [][NextCached]_vars

\* the record of the feed that a post was built from
FeedRecordOf(id) == CHOOSE r \in FeedRecords : r.id = id
\* the post that the refreshing fetchAll built, at time t, for this id
Produced(id, t) == FeedPost(FeedRecordOf(id), t)

\* C25 (SpecCached): the sequence a cache-hit fetchAll returns has the
\* posts, in the order and with the likes and dislikes, of the sequence
\* that the fetchAll which filled the cache produced, whatever likePost,
\* dislikePost or loadPostInteractions did to the returned posts since.
C25_CacheHitReturnsProduced ==
    [][(lastRepo' # lastRepo /\ lastRepo'.kind = "fetchAllHit") =>
         LET posts == lastRepo'.result
         IN  /\ posts = Get(cache)
             /\ \A i \in 1..Len(posts) :
                  LET post == Obj(heap', posts[i])
                      made == Produced(post.id, Get(cacheTimestamp))
                  IN  /\ post.likes = made.likes
                      /\ post.dislikes = made.dislikes
                      /\ post = made]_vars

(***************************************************************************)
(* The counter keys of LocalStorageService: reads, writes and clearAll on  *)
(* the counters of two posts, from stores that hold counts already.        *)
(***************************************************************************)
StoredCounts == {None, Some(<<"1", "2">>)}

InitKeys ==
    /\ \E counts \in [StorageKeys -> StoredCounts] :
          localStorage = [k \in StoreKeys |->
                            IF k \in StorageKeys THEN counts[k] ELSE None]
    /\ heap = <<Some(InitialEntity("SocialPost", "1"))>>
    /\ last = [op |-> "none"]
    /\ tracked = {}
    /\ ops = 0
    /\ RepoIdle
    /\ ShareIdle
    /\ NoGallery

NextKeys ==
    \/ \E postId \in PostIds, access \in StorageAccess : GetLikes(postId, access)
    \/ \E postId \in PostIds, access \in StorageAccess : GetDislikes(postId, access)
    \/ \E postId \in PostIds, count \in WrittenCounts, setItem \in SetItemOutcomes :
          SetLikes(postId, count, setItem)
    \/ \E postId \in PostIds, count \in WrittenCounts, setItem \in SetItemOutcomes :
          SetDislikes(postId, count, setItem)
    \/ \E outcome \in ClearAllOutcomes : ClearAll(outcome)

SpecKeys == InitKeys /\ [][NextKeys]_vars

\* the step is a write of count n for post p that returned true
Written(op, p, n) == CallOf(op) /\ last'.arg = <<p, n>> /\ last'.ret = TRUE
\* the step is a write for post p, or a clearAll
WritesOrClears(op, p) == (CallOf(op) /\ last'.arg[1] = p) \/ CallOf("clearAll")

\* C26 (SpecKeys), as stated: after setLikes(p, n) returned true, a
\* getLikes(p) made before the next setLikes(p, _) or clearAll returns n;
\* the same for setDislikes and getDislikes.  No store starts with the
\* count 7, so a key that holds 7 was written by a setLikes(p, 7) or
\* setDislikes(p, 7) that returned true.
C26_ReadAfterWriteReturnsCount ==
    \A p \in PostIds :
       /\ (/\ last.op = "getLikes" /\ last.arg = p
           /\ last.storeBefore[LikesKey(p)] = Some(NumberToString(Num(7))))
          => last.ret = Num(7)
       /\ (/\ last.op = "getDislikes" /\ last.arg = p
           /\ last.storeBefore[DislikesKey(p)] = Some(NumberToString(Num(7))))
          => last.ret = Num(7)

\* C26 (SpecKeys), amended: a setLikes(p, n) that returns true makes n the
\* stored likes of p and changes neither the stored dislikes of any post
\* nor the stored likes of another post; the stored likes of p change only
\* in a setLikes(p, _) or a clearAll; and every getLikes that reads the
\* storage without a fault returns the stored likes.  Symmetrically for
\* setDislikes and getDislikes.
C26_KeysIsolatedAndRoundTrip ==
    /\ [][\A p \in PostIds, n \in WrittenCounts :
            /\ Written("setLikes", p, n) =>
                 /\ getLikes(localStorage', p) = n
                 /\ \A q \in PostIds :
                      /\ getDislikes(localStorage', q) = getDislikes(localStorage, q)
                      /\ q # p => getLikes(localStorage', q) = getLikes(localStorage, q)
            /\ Written("setDislikes", p, n) =>
                 /\ getDislikes(localStorage', p) = n
                 /\ \A q \in PostIds :
                      /\ getLikes(localStorage', q) = getLikes(localStorage, q)
                      /\ q # p =>
                           getDislikes(localStorage', q) = getDislikes(localStorage, q)]_vars
    /\ [][\A p \in PostIds :
            /\ ~WritesOrClears("setLikes", p) =>
                 getLikes(localStorage', p) = getLikes(localStorage, p)
            /\ ~WritesOrClears("setDislikes", p) =>
                 getDislikes(localStorage', p) = getDislikes(localStorage, p)]_vars
    /\ [][/\ (CallOf("getLikes") /\ last'.access = "ok") =>
                 last'.ret = getLikes(localStorage, last'.arg)
          /\ (CallOf("getDislikes") /\ last'.access = "ok") =>
                 last'.ret = getDislikes(localStorage, last'.arg)]_vars

\* setLikes("1", 7) returned true on a store that holds 12 under the three
\* other counter keys, and the getLikes("1") after it returned 7
C26_Witness ==
    /\ ops = 2 /\ last.op = "getLikes" /\ last.arg = "1" /\ last.access = "ok"
    /\ last.ret = Num(7)
    /\ getLikes(localStorage, "2") = Num(12)
    /\ getDislikes(localStorage, "1") = Num(12)
    /\ getDislikes(localStorage, "2") = Num(12)

(***************************************************************************)
(* FoxGallery of fox-photo-card.js.  The element owns a repository, a      *)
(* store service and an interaction service; `gallery` holds its reactive  *)
(* properties.  A handler runs to its end or to its next await in one      *)
(* step.  The Load button is disabled while loading is true, so a load     *)
(* begins only when none is in flight; the mode radios, the cards' like,   *)
(* dislike and share buttons are never disabled.                           *)
(***************************************************************************)
ApiModes == {"random", "custom"}

\* the times at which a fox post can be built, and the ids it can get
GalleryTimes == {1 + k * cacheExpiry : k \in 0..MaxTicks}
FoxIds == {FoxId(t, i) : t \in GalleryTimes, i \in 0..(PhotoCount - 1)}
GalleryKeys ==
    StorageKeys \cup {LikesKey(id) : id \in FoxIds} \cup {DislikesKey(id) : id \in FoxIds}
IsFoxId(id) == id \in FoxIds

\* browsers: one with the Web Share API, one with the clipboard only
GalleryShareEnvs ==
    {[share |-> TRUE, canShare |-> TRUE, accepts |-> TRUE, clipboard |-> TRUE],
     [share |-> FALSE, canShare |-> FALSE, accepts |-> FALSE, clipboard |-> TRUE]}

\* bodies of the feed: unparsable, or one record
GalleryBodies ==
    {None, Some([photos |-> [isArray |-> TRUE, items |-> <<FeedRecord1>>]])}

\* the constructor; apiMode comes from the stored preferences.  The store
\* holds 9 likes for post 1, of which the feed reports 5.
InitGallery ==
    /\ localStorage =
          [k \in GalleryKeys |-> IF k = LikesKey("1") THEN Some(<<"9">>) ELSE None]
    /\ heap = [r \in HeapRefs |-> None]
    /\ last = [op |-> "none"]
    /\ tracked = {}
    /\ ops = 0
    /\ now = 1
    /\ ticks = 0
    /\ cache = None
    /\ cacheTimestamp = None
    /\ calls = [c \in CallIds |-> Idle]
    /\ feedRequests = 0
    /\ foxRequests = 0
    /\ lastRepo = [kind |-> "none"]
    /\ lastRandom = [kind |-> "none"]
    /\ shareEnv \in GalleryShareEnvs
    /\ sharePc = "idle"
    /\ shareLog = <<>>
    /\ shareResult = None
    /\ shares = 0
    /\ \E mode \in ApiModes :
          gallery = [foxPhotos |-> <<>>, loading |-> FALSE, error |-> <<>>,
                     apiMode |-> mode]

\* what the element, its repository and the repository's call refer to
GalleryRoots(g, cch, cls) ==
    Range(g.foxPhotos)
    \cup (IF IsSome(cch) THEN Range(Get(cch)) ELSE {})
    \cup UNION {IF "posts" \in DOMAIN cls[c] THEN Range(cls[c].posts) ELSE {} :
                c \in DOMAIN cls}

\* posts.forEach(post => this.socialInteractionService.loadPostInteractions(post))
RECURSIVE LoadAll(_, _, _)
LoadAll(h, store, posts) ==
    IF posts = <<>> THEN h
    ELSE LoadAll(loadPostInteractions(h, store, Head(posts)).heap, store, Tail(posts))

\* what the getters of the storage service answer from: a read that raises
\* is caught and answered like a key that is not there
Answered(store, access) ==
    IF access = "raises" THEN [k \in DOMAIN store |-> None] ELSE store

\* this.loading = true; this.error = ''; this.foxPhotos = []
LoadBegun(g) == [g EXCEPT !.loading = TRUE, !.error = <<>>, !.foxPhotos = <<>>]

LoadEndedKeepsLoading(g, posts) == [g EXCEPT !.foxPhotos = posts]
\* this.foxPhotos = posts, then the finally block
LoadEnded(g, posts) == [g EXCEPT !.foxPhotos = posts, !.loading = FALSE]
\* the catch block, then the finally block
LoadFailed(g, prefix, e) ==
    [g EXCEPT !.error = <<prefix, e.message, e.cause>>, !.loading = FALSE]

LoadStarted(source) == [op |-> "loadStart", source |-> source]
LoadReturned(source, outcome, access) ==
    [op |-> "load", source |-> source, outcome |-> outcome, access |-> access]

\* the social feed came back: loadPostInteractions on every post, display
SocialFeedLoaded(h, g, posts, access) ==
    /\ gallery' = LoadEnded(g, posts)
    /\ last' = LoadReturned("custom", "succeeded", access)
    /\ heap' = Collect(LoadAll(h, Answered(localStorage, access), posts),
                       GalleryRoots(gallery', cache', calls'))

SocialFeedFailed(cause) ==
    /\ calls' = [calls EXCEPT ![1] = Idle]
    /\ gallery' = LoadFailed(gallery, "Error loading social feed: ", FetchAllError(cause))
    /\ last' = LoadReturned("custom", "raised", "ok")
    /\ UNCHANGED <<cache, cacheTimestamp>>
    /\ heap' = Collect(heap, GalleryRoots(gallery', cache', calls'))

\* loadSocialFeed up to the await of fetchAll's fetch, or to its end when
\* fetchAll returns the cache
LoadSocialFeed(access) ==
    /\ UNCHANGED <<foxRequests, lastRandom, cache, cacheTimestamp>>
    /\ IF isCacheValid(cache, cacheTimestamp, now)
       THEN /\ UNCHANGED <<feedRequests, calls>>
            /\ SocialFeedLoaded(heap, LoadBegun(gallery), Get(cache), access)
       ELSE /\ feedRequests < MaxFeedRequests
            /\ feedRequests' = feedRequests + 1
            /\ calls' = [calls EXCEPT ![1] =
                           [op |-> "fetchAll", pc |-> "fetch",
                            cacheBefore |-> cache, timestampBefore |-> cacheTimestamp]]
            /\ gallery' = LoadBegun(gallery)
            /\ last' = LoadStarted("custom")
            /\ heap' = Collect(heap, GalleryRoots(gallery', cache', calls'))

\* the fox photos came back
FoxPhotosLoaded(h, posts, access) ==
    /\ gallery' = LoadEnded(gallery, posts)
    /\ last' = LoadReturned("random", "succeeded", access)
    /\ heap' = Collect(LoadAll(h, Answered(localStorage, access), posts),
                       GalleryRoots(gallery', cache', calls'))

FoxPhotosFailed(cause) ==
    /\ RandomRaise(1, cause)
    /\ gallery' = LoadFailed(gallery, "Failed to load fox photos: ",
                             FetchRandomError(cause))
    /\ last' = LoadReturned("random", "raised", "ok")
    /\ heap' = Collect(heap, GalleryRoots(gallery', cache', calls'))

\* loadRandomFoxPhotos up to the await of the first fetch
LoadRandomFoxPhotos(count) ==
    /\ foxRequests + count <= MaxFoxRequests
    /\ RandomLoop(1, count, 0, <<>>, <<>>)
    /\ gallery' = LoadBegun(gallery)
    /\ last' = LoadStarted("random")
    /\ UNCHANGED feedRequests
    /\ heap' = Collect(heap, GalleryRoots(gallery', cache', calls'))

\* the click on Load Photos
HandleLoadPhotos(access) ==
    /\ ~gallery.loading
    /\ ops < MaxOps
    /\ ops' = ops + 1
    /\ IF gallery.apiMode = "random"
       THEN LoadRandomFoxPhotos(PhotoCount)
       ELSE LoadSocialFeed(access)
    /\ UNCHANGED <<localStorage, tracked, now, ticks, lastRepo, shareVars>>

\* `await fetch(this.dataSource)` of the load's fetchAll settles
SocialFeedResponse(outcome) ==
    /\ calls[1].pc = "fetch" /\ calls[1].op = "fetchAll"
    /\ IF outcome = "ok"
       THEN /\ calls' = [calls EXCEPT ![1].pc = "json"]
            /\ UNCHANGED <<heap, cache, cacheTimestamp, gallery, last>>
       ELSE SocialFeedFailed(outcome)
    /\ UNCHANGED <<localStorage, tracked, ops, now, ticks, feedRequests, foxRequests,
                   lastRepo, lastRandom, shareVars>>

\* `await response.json()` of the load's fetchAll settles: fetchAll fills
\* the cache and returns, and loadSocialFeed runs to its end
SocialFeedJson(body, access) ==
    /\ calls[1].pc = "json" /\ calls[1].op = "fetchAll"
    /\ IF body = None
       THEN SocialFeedFailed("unparsable")
       ELSE IF ~HasPhotosArray(Get(body))
       THEN SocialFeedFailed("Invalid data format: photos array not found")
       ELSE IF \E i \in 1..Len(Get(body).photos.items) :
                   ~CanConstruct(Get(body).photos.items[i])
       THEN SocialFeedFailed("TypeError")
       ELSE LET a == Alloc(heap, MapPhotos(Get(body).photos.items, now))
            IN  /\ cache' = Some(a.refs)
                /\ cacheTimestamp' = Some(now)
                /\ calls' = [calls EXCEPT ![1] = Idle]
                /\ SocialFeedLoaded(a.heap, gallery, a.refs, access)
    /\ UNCHANGED <<localStorage, tracked, ops, now, ticks, feedRequests, foxRequests,
                   lastRepo, lastRandom, shareVars>>

\* the for loop of fetchRandomFoxPosts goes on, or the batch is returned
\* and loadRandomFoxPhotos runs to its end
FoxLoop(h, i, posts, outcomes, access) ==
    /\ RandomLoop(1, calls[1].count, i, posts, outcomes)
    /\ IF i < calls[1].count
       THEN /\ UNCHANGED <<gallery, last>>
            /\ heap' = Collect(h, GalleryRoots(gallery', cache', calls'))
       ELSE FoxPhotosLoaded(h, posts, access)

\* `await fetch('https://randomfox.ca/floof/')` of the load settles
FoxResponse(outcome, access) ==
    /\ calls[1].pc = "fetch" /\ calls[1].op = "random"
    /\ IF outcome = "ok"
       THEN /\ calls' = [calls EXCEPT ![1].pc = "json"]
            /\ UNCHANGED <<heap, foxRequests, lastRandom, cache, cacheTimestamp,
                           gallery, last>>
       ELSE IF outcome = "notOk"
       THEN FoxLoop(heap, calls[1].i + 1, calls[1].posts,
                    Append(calls[1].outcomes, "notOk"), access)
       ELSE FoxPhotosFailed(outcome)
    /\ UNCHANGED <<localStorage, tracked, ops, now, ticks, feedRequests, lastRepo,
                   shareVars>>

\* `await response.json()` of the load's fox request settles
FoxJson(body, access) ==
    /\ calls[1].pc = "json" /\ calls[1].op = "random"
    /\ IF body = None
       THEN FoxPhotosFailed("unparsable")
       ELSE LET a == Alloc(heap, <<FoxPost(Get(body), calls[1].i, now)>>)
            IN  FoxLoop(a.heap, calls[1].i + 1, calls[1].posts \o a.refs,
                        Append(calls[1].outcomes, "ok"), access)
    /\ UNCHANGED <<localStorage, tracked, ops, now, ticks, feedRequests, lastRepo,
                   shareVars>>

\* the change event of a mode radio
HandleApiModeChange(value) ==
    /\ value # gallery.apiMode
    /\ gallery' = [gallery EXCEPT !.apiMode = value, !.foxPhotos = <<>>]
    /\ heap' = Collect(heap, GalleryRoots(gallery', cache, calls))
    /\ UNCHANGED <<interactVars, repoVars, shareVars>>

\* this.foxPhotos.findIndex(p => p.id === photoId)
findIndex(h, photos, photoId) ==
    CHOOSE i \in 1..Len(photos) :
       /\ Obj(h, photos[i]).id = photoId
       /\ \A j \in 1..(i - 1) : Obj(h, photos[j]).id # photoId

\* { ...post }: the own properties, without the methods of the class
Spread(post) == [post EXCEPT !.cls = "Object"]

\* [...slice(0, postIndex), { ...post }, ...slice(postIndex + 1)]
Replaced(h, photos, postIndex) ==
    LET a == Alloc(h, <<Spread(Obj(h, photos[postIndex]))>>)
    IN  [heap |-> a.heap, photos |-> [photos EXCEPT ![postIndex] = a.refs[1]]]

ReplacedInPlace(h, photos, postIndex) == [heap |-> h, photos |-> photos]

\* the like event of the card at position k
HandleLike(k, write) ==
    /\ ops < MaxOps
    /\ k \in 1..Len(gallery.foxPhotos)
    /\ LET photoId == Obj(heap, gallery.foxPhotos[k]).id
           postIndex == findIndex(heap, gallery.foxPhotos, photoId)
           post == gallery.foxPhotos[postIndex]
           r == likePost(heap, localStorage, post, write)
           new == Replaced(r.heap, gallery.foxPhotos, postIndex)
       IN  /\ localStorage' = r.store
           /\ last' = [op |-> "handleLike", photoId |-> photoId, write |-> write,
                       postIndex |-> postIndex, before |-> Obj(heap, post),
                       ret |-> r.ret]
           /\ IF r.ret.success
              THEN /\ gallery' = [gallery EXCEPT !.foxPhotos = new.photos]
                   /\ heap' = Collect(new.heap, GalleryRoots(gallery', cache, calls))
              ELSE /\ UNCHANGED gallery
                   /\ heap' = r.heap
    /\ ops' = ops + 1
    /\ UNCHANGED <<tracked, repoVars, shareVars>>

\* the dislike event of the card at position k
HandleDislike(k, write) ==
    /\ ops < MaxOps
    /\ k \in 1..Len(gallery.foxPhotos)
    /\ LET photoId == Obj(heap, gallery.foxPhotos[k]).id
           postIndex == findIndex(heap, gallery.foxPhotos, photoId)
           post == gallery.foxPhotos[postIndex]
           r == dislikePost(heap, localStorage, post, write)
           new == Replaced(r.heap, gallery.foxPhotos, postIndex)
       IN  /\ localStorage' = r.store
           /\ last' = [op |-> "handleDislike", photoId |-> photoId, write |-> write,
                       postIndex |-> postIndex, before |-> Obj(heap, post),
                       ret |-> r.ret]
           /\ IF r.ret.success
              THEN /\ gallery' = [gallery EXCEPT !.foxPhotos = new.photos]
                   /\ heap' = Collect(new.heap, GalleryRoots(gallery', cache, calls))
              ELSE /\ UNCHANGED gallery
                   /\ heap' = r.heap
    /\ ops' = ops + 1
    /\ UNCHANGED <<tracked, repoVars, shareVars>>

\* handleShare after sharePost has returned: a failure is shown as error
AfterShare(result, g) ==
    IF IsSome(result) /\ ~Get(result).success
    THEN [g EXCEPT !.error = <<Get(result).message>>]
    ELSE g

\* the share event of the card at position k; its photo is the entry that
\* was rendered
HandleShare(k, exec) ==
    /\ k \in 1..Len(gallery.foxPhotos)
    /\ SharePostStart(gallery.foxPhotos[k], exec)
    /\ gallery' = AfterShare(shareResult', gallery)

HandleShareNative(outcome) ==
    /\ NativeShareSettled(outcome)
    /\ gallery' = AfterShare(shareResult', gallery)

HandleShareClipboard(outcome) ==
    /\ ClipboardWriteSettled(outcome)
    /\ gallery' = AfterShare(shareResult', gallery)

NextGallery ==
    \/ Tick(cacheExpiry)
    \/ \E access \in StorageAccess : HandleLoadPhotos(access)
    \/ \E outcome \in FetchOutcomes : SocialFeedResponse(outcome)
    \/ \E body \in GalleryBodies, access \in StorageAccess : SocialFeedJson(body, access)
    \/ \E outcome \in FetchOutcomes, access \in StorageAccess :
          FoxResponse(outcome, access)
    \/ \E body \in RepoAllFoxBodies, access \in StorageAccess : FoxJson(body, access)
    \/ \E value \in ApiModes : HandleApiModeChange(value)
    \/ \E k \in 1..MaxPhotos, write \in WriteOutcomes : HandleLike(k, write)
    \/ \E k \in 1..MaxPhotos, write \in WriteOutcomes : HandleDislike(k, write)
    \/ \E k \in 1..MaxPhotos, exec \in ExecCommandOutcomes : HandleShare(k, exec)
    \/ \E outcome \in PromiseOutcomes : HandleShareNative(outcome)
    \/ \E outcome \in PromiseOutcomes : HandleShareClipboard(outcome)

SpecGallery == InitGallery /\ [][NextGallery]_vars

\* the loads of the gallery, with the events that can arrive while a load
\* is suspended: the mode radios and the share buttons
NextLoad ==
    \/ Tick(cacheExpiry)
    \/ \E access \in StorageAccess : HandleLoadPhotos(access)
    \/ \E outcome \in FetchOutcomes : SocialFeedResponse(outcome)
    \/ \E body \in GalleryBodies, access \in StorageAccess : SocialFeedJson(body, access)
    \/ \E outcome \in FetchOutcomes, access \in StorageAccess :
          FoxResponse(outcome, access)
    \/ \E body \in RepoAllFoxBodies, access \in StorageAccess : FoxJson(body, access)
    \/ \E value \in ApiModes : HandleApiModeChange(value)
    \/ \E k \in 1..MaxPhotos, exec \in ExecCommandOutcomes : HandleShare(k, exec)
    \/ \E outcome \in PromiseOutcomes : HandleShareClipboard(outcome)

\* a browser without navigator.share: sharePost goes to the clipboard
InitLoad == InitGallery /\ ~shareEnv.share

SpecLoad == InitLoad /\ [][NextLoad]_vars

\* the network answers: a fetch and a response.json() that are awaited
\* settle
SpecLoadFair ==
    /\ SpecLoad
    /\ WF_vars(\E outcome \in FetchOutcomes : SocialFeedResponse(outcome))
    /\ WF_vars(\E body \in GalleryBodies, access \in StorageAccess :
                  SocialFeedJson(body, access))
    /\ WF_vars(\E outcome \in FetchOutcomes, access \in StorageAccess :
                  FoxResponse(outcome, access))
    /\ WF_vars(\E body \in RepoAllFoxBodies, access \in StorageAccess :
                  FoxJson(body, access))

(***************************************************************************)
(* Properties of the gallery of fox-photo-card.js.                         *)
(***************************************************************************)
\* what the gallery shows of the entry at position k
Shown(h, g, k) == Obj(h, g.foxPhotos[k])

\* C27 (SpecGallery): every like event on a displayed post, made while the
\* storage accepts the write, raises the likes shown for that post by
\* exactly one, the second and later like events on the same post
\* included; the same for dislike events and the dislikes shown.
C27_EveryLikeRaisesShownCount ==
    [][/\ (CallOf("handleLike") /\ last'.write = "stored") =>
             Shown(heap', gallery', last'.postIndex).likes = JsInc(last'.before.likes)
       /\ (CallOf("handleDislike") /\ last'.write = "stored") =>
             Shown(heap', gallery', last'.postIndex).dislikes
                = JsInc(last'.before.dislikes)]_vars

\* the step ends a load
LoadEnds == last'.op = "load" /\ (last.op # "load" \/ ops' # ops)
\* the counters shown for every entry are those the store holds for its id
ShowsPersisted(h, g, store) ==
    \A k \in 1..Len(g.foxPhotos) :
       /\ Shown(h, g, k).likes = getLikes(store, Shown(h, g, k).id)
       /\ Shown(h, g, k).dislikes = getDislikes(store, Shown(h, g, k).id)

\* C28 (SpecLoadFair): every load that is started finishes; it finishes
\* with loading = false; when the repository call raised, error is not
\* empty and foxPhotos is empty; when it returned, error is empty and the
\* likes and dislikes shown for every post are the persisted counters of
\* its id.
C28_LoadFinishes ==
    /\ gallery.loading ~> ~gallery.loading
    /\ [][LoadEnds =>
            /\ ~gallery'.loading
            /\ last'.outcome = "raised" =>
                  /\ gallery'.error # <<>>
                  /\ gallery'.foxPhotos = <<>>
            /\ last'.outcome = "succeeded" =>
                  /\ gallery'.error = <<>>
                  /\ ShowsPersisted(heap', gallery', localStorage')]_vars

\* the step starts a load
LoadBegins == CallOf("loadStart")
\* the step is a handleShare whose sharePost answers with a failure
ShareFails ==
    /\ shareResult' # shareResult
    /\ IsSome(shareResult')
    /\ ~Get(shareResult').success
    /\ gallery'.error = <<Get(shareResult').message>>

\* C28 as amended (SpecLoadFair): every load that is started finishes,
\* with loading = false; when the repository call raised, error is not
\* empty and foxPhotos is empty; when it returned, the likes and dislikes
\* shown for every post are what getLikes and getDislikes answer for its
\* id (the persisted counters, or 0 when the storage read raises), and
\* error is
\* what it was while the load was suspended (empty for a load that is
\* served without suspending): the load empties error when it starts, and
\* from then on only a handleShare that failed writes it (its message).
C28_LoadFinishesAndKeepsShareError ==
    /\ gallery.loading ~> ~gallery.loading
    /\ [][LoadEnds =>
            /\ ~gallery'.loading
            /\ last'.outcome = "raised" =>
                  /\ gallery'.error # <<>>
                  /\ gallery'.foxPhotos = <<>>
            /\ last'.outcome = "succeeded" =>
                  /\ gallery'.error = IF gallery.loading THEN gallery.error ELSE <<>>
                  /\ ShowsPersisted(heap', gallery',
                                    Answered(localStorage', last'.access))]_vars
    /\ [][LoadBegins => gallery'.loading /\ gallery'.error = <<>>]_vars
    /\ [][(gallery.loading /\ ~LoadEnds /\ gallery'.error # gallery.error)
             => ShareFails]_vars

\* a load that returned posts has finished while the message of a share
\* that failed during it is shown
C28_Witness ==
    /\ last.op = "load"
    /\ last.outcome = "succeeded"
    /\ ~gallery.loading
    /\ gallery.foxPhotos # <<>>
    /\ gallery.error # <<>>

\* the source that built the entry at position k
SourceOf(h, g, k) == IF IsFoxId(Shown(h, g, k).id) THEN "random" ELSE "custom"

\* C30 (SpecGallery): whenever no load is in flight, every photo shown was
\* produced by the source of the selected apiMode.
C30_ShownPhotosAreOfSelectedMode ==
    ~gallery.loading =>
        \A k \in 1..Len(gallery.foxPhotos) : SourceOf(heap, gallery, k) = gallery.apiMode

(***************************************************************************)
(* FoxGallery of fox-gallery-fixed.js.  The element builds the same three  *)
(* services, and calls them by names of its own.  A call of a name the     *)
(* class of the receiver does not define raises a TypeError.               *)
(***************************************************************************)
\* the methods the classes define
Methods ==
    [SocialPostRepository |->
        {"fetchAll", "fetchRandomFoxPosts", "findById", "findByAuthor",
         "findByChannel", "isCacheValid", "clearCache"},
     LocalStorageService |->
        {"getLikes", "setLikes", "getDislikes", "setDislikes", "getTheme",
         "setTheme", "getUserPreferences", "setUserPreferences", "clearAll",
         "getStorageStats"},
     SocialInteractionService |->
        {"likePost", "dislikePost", "sharePost", "loadPostInteractions",
         "getEngagementStats"}]

\* receiver.name(...) raises `receiver.name is not a function`
IsNotAFunction(cls, name) == name \notin Methods[cls]
NotAFunction(receiver, name) == <<receiver, ".", name, " is not a function">>

\* what ./data/social-posts.json holds: no JSON, one record, two records
FixedFeeds ==
    {None,
     Some([photos |-> [isArray |-> TRUE, items |-> <<FeedRecord1>>]]),
     Some([photos |-> [isArray |-> TRUE, items |-> <<FeedRecord1, FeedRecord2>>]])}
\* the feed holds a photos array
ValidPayload(feed) == IsSome(feed) /\ HasPhotosArray(Get(feed))

Themes == {"light", "dark"}
\* the data-theme attribute of document.body: absent, or a theme
BodyThemes == {None} \cup {Some(t) : t \in Themes}
Filters == {"all", "liked", "popular"}

\* the element after its constructor, not yet in the document
InitFixed ==
    /\ localStorage = [k \in StorageKeys |-> None]
    /\ heap = <<>>
    /\ last = [op |-> "none", raised |-> FALSE]
    /\ tracked = {}
    /\ ops = 0
    /\ RepoIdle
    /\ ShareIdle
    /\ \E feed \in FixedFeeds, bodyTheme \in BodyThemes :
          gallery = [posts |-> <<>>, loading |-> TRUE, error |-> None,
                     activeFilter |-> "all", totalLikes |-> 0, totalDislikes |-> 0,
                     theme |-> "light", connected |-> FALSE,
                     feed |-> feed, bodyTheme |-> bodyTheme]

\* loadPosts: this.loading = true, this.error = null, then the call
\* this.socialPostRepository.getAllPosts() raises inside the try, and the
\* catch block writes error and loading
loadPosts(g) ==
    [g EXCEPT !.loading = FALSE,
              !.error = Some(<<"Failed to load posts: ",
                               NotAFunction("this.socialPostRepository", "getAllPosts")>>)]

\* the initial theme of setupThemeObserver
setupThemeObserver(g) ==
    [g EXCEPT !.theme = IF IsSome(g.bodyTheme) THEN Get(g.bodyTheme) ELSE "light"]

\* connectedCallback: loadPosts, then setupThemeObserver
ConnectedCallback ==
    /\ ops < MaxOps
    /\ ops' = ops + 1
    /\ IsNotAFunction("SocialPostRepository", "getAllPosts")
    /\ gallery' = [setupThemeObserver(loadPosts(gallery)) EXCEPT !.connected = TRUE]
    /\ last' = [op |-> "loadPosts", raised |-> FALSE]
    /\ UNCHANGED <<heap, localStorage, tracked, repoVars, shareVars>>

\* the data-theme attribute of document.body changes; the observer of a
\* connected element copies a theme that differs from its own
BodyThemeChanges(value) ==
    /\ value # gallery.bodyTheme
    /\ gallery' = [gallery EXCEPT !.bodyTheme = value,
                                  !.theme = IF gallery.connected /\ IsSome(value)
                                            THEN Get(value) ELSE @]
    /\ UNCHANGED <<heap, interactVars, repoVars, shareVars>>

SetFilter(value) ==
    /\ value # gallery.activeFilter
    /\ gallery' = [gallery EXCEPT !.activeFilter = value]
    /\ UNCHANGED <<heap, interactVars, repoVars, shareVars>>

\* a TypeError leaves the handler op
HandlerRaises(op) ==
    /\ ops < MaxOps
    /\ ops' = ops + 1
    /\ last' = [op |-> op, raised |-> TRUE]
    /\ UNCHANGED <<gallery, heap, localStorage, tracked, repoVars, shareVars>>

\* handleLike(event): this.socialInteractionService.handleLike(postId, this.posts)
FixedHandleLike(postId) ==
    /\ IsNotAFunction("SocialInteractionService", "handleLike")
    /\ HandlerRaises("handleLike")

\* handleDislike(event)
FixedHandleDislike(postId) ==
    /\ IsNotAFunction("SocialInteractionService", "handleDislike")
    /\ HandlerRaises("handleDislike")

\* handleShare(event)
FixedHandleShare(postId) ==
    /\ IsNotAFunction("SocialInteractionService", "handleShare")
    /\ HandlerRaises("handleShare")

NextFixed ==
    \/ ConnectedCallback
    \/ \E value \in BodyThemes : BodyThemeChanges(value)
    \/ \E value \in Filters : SetFilter(value)
    \/ \E postId \in PostIds : FixedHandleLike(postId)
    \/ \E postId \in PostIds : FixedHandleDislike(postId)
    \/ \E postId \in PostIds : FixedHandleShare(postId)

SpecFixed == InitFixed /\ [][NextFixed]_vars

\* C29 (SpecFixed): in the gallery of fox-gallery-fixed.js a loadPosts that
\* has ended leaves loading = false; when the feed source holds a valid
\* photos payload it leaves error = null and one entry in posts for every
\* record of the feed; and a like event does not raise.
C29_LoadPostsShowsFeed ==
    /\ last.op = "loadPosts" =>
          /\ ~gallery.loading
          /\ ValidPayload(gallery.feed) =>
                /\ gallery.error = None
                /\ Len(gallery.posts) = Len(Get(gallery.feed).photos.items)
    /\ last.op = "handleLike" => ~last.raised

====
